---- MODULE Spec2Model ----
(***************************************************************************)
(* DarkMint proof-generation pipeline: the account-leaf circuit (LAST,     *)
(* lib/src/account_verification.rs), the path circuit (PATH,               *)
(* lib/src/merkle_proof.rs) and the guest program that drives them         *)
(* (program/src/main.rs).                                                  *)
(*                                                                         *)
(* Bytes.  A byte is a record [tag, src, idx, val]:                        *)
(*   tag = "raw": the data byte val (0..255); src = <<>>, idx = 0;         *)
(*   tag = "kec": byte idx (1-based) of the Keccak-256 digest of the byte  *)
(*                string that src packs, xor-ed with val;                  *)
(*   tag = "ser": byte idx (1-based) of the 32-byte big-endian             *)
(*                serialization of the field element src[1], xor-ed with   *)
(*                val.                                                     *)
(* Pack writes a byte string as its runs (consecutive data bytes,          *)
(* consecutive bytes of one digest); Unpack is its inverse.  Terms hold    *)
(* byte strings packed.                                                    *)
(* Keccak-256 and Poseidon are modelled as ideal hashes (free terms): two  *)
(* digests are equal iff their inputs are, and a digest byte is never      *)
(* equal to a data byte.  Field elements are terms too: [tag |-> "num"]    *)
(* carries the little-endian bytes of a canonical integer (reduction       *)
(* modulo the field order is not modelled: all integers of the model are   *)
(* below it), [tag |-> "H"] is a Poseidon image.                           *)
(***************************************************************************)
EXTENDS Integers, Sequences, FiniteSets, TLC

(***************************************************************************)
(* Program constants and the bounds of the model.                          *)
(***************************************************************************)
\* crypto.rs: pub const HASH_LENGTH: usize = 32.
HASH_LENGTH == 32
\* crypto.rs: pub const SECURITY_PARAMETER: usize = 20.
SECURITY_PARAMETER == 20
\* crypto.rs: pub const ADDRESS_LENGTH: usize = 20.
ADDRESS_LENGTH == 20
\* account_verification.rs: storage_hash / code_hash are [u8; 32].
ACCOUNT_HASH_BYTES == 32
\* ark_bn254::Fr serializes to 32 bytes (into_bigint().to_bytes_be()).
FIELD_BYTES == 32
\* main.rs generate_root_proof: upper_layer_bytes: vec![0; 136].
ROOT_UPPER_ZEROS == 136

\* script/src/mint.rs mint_cmd: for i in 0..10.
BURN_ADDRESS_INDICES == 10

\* The longest byte string the substring search is tested on.
MaxSubLen == 3
\* The most coins the wallet holds before mint_cmd is called.
MaxCoins == 1
\* Longest proof chain the model generates.
MaxDepth == 4

(***************************************************************************)
(* Bytes and byte strings.                                                 *)
(***************************************************************************)
Raw(v) == [tag |-> "raw", src |-> <<>>, idx |-> 0, val |-> v]

RawSeq(s) == [i \in 1..Len(s) |-> Raw(s[i])]

Zeros(n) == [i \in 1..n |-> Raw(0)]

Fill(v, n) == [i \in 1..n |-> Raw(v)]

RECURSIVE XorBits(_, _, _)
XorBits(a, b, n) ==
    IF n = 0 THEN 0
    ELSE (((a % 2) + (b % 2)) % 2) + 2 * XorBits(a \div 2, b \div 2, n - 1)

\* x ^ m on one byte.
Xor(a, b) == XorBits(a, b, 8)

\* The byte b with the bits of mask m flipped.
FlipByte(b, m) == [b EXCEPT !.val = Xor(b.val, m)]

\* The byte string s with the bits of mask m flipped in its byte at 0-based offset k.
FlipAt(s, k, m) == [s EXCEPT ![k + 1] = FlipByte(s[k + 1], m)]

Reverse(s) == [i \in 1..Len(s) |-> s[Len(s) + 1 - i]]

\* s[from..to) with 0-based Rust bounds.
Slice(s, from, to) == SubSeq(s, from + 1, to)

Min(S) == CHOOSE x \in S : \A y \in S : x <= y

MinNat(a, b) == IF a <= b THEN a ELSE b

\* usize::saturating_sub
SaturatingSub(a, b) == IF a >= b THEN a - b ELSE 0

RECURSIVE Concat(_)
Concat(ss) == IF ss = <<>> THEN <<>> ELSE Head(ss) \o Concat(Tail(ss))

\* The byte b continues the run that the byte a is in.
Continues(a, b) ==
    /\ a.tag = b.tag
    /\ a.src = b.src
    /\ (b.tag = "raw" \/ b.idx = a.idx + 1)

\* The 1-based offsets at which a run of s starts.
RunStarts(s) == {i \in 1..Len(s) : i = 1 \/ ~Continues(s[i - 1], s[i])}

\* The integers of the set S in ascending order.
Ascending(S) ==
    [k \in 1..Cardinality(S) |-> CHOOSE i \in S : Cardinality({j \in S : j < i}) = k - 1]

\* The run s[from..to] (1-based, inclusive).
RunOf(s, from, to) ==
    [tag |-> s[from].tag, src |-> s[from].src, idx |-> s[from].idx,
     vals |-> [j \in 1..(to - from + 1) |-> s[from + j - 1].val]]

\* The runs of s that start at the offsets starts (ascending).
PackRuns(s, starts) ==
    [k \in 1..Len(starts) |->
        RunOf(s, starts[k], IF k = Len(starts) THEN Len(s) ELSE starts[k + 1] - 1)]

\* The byte string s as the sequence of its runs.
Pack(s) == PackRuns(s, Ascending(RunStarts(s)))

UnpackRun(g) ==
    [j \in 1..Len(g.vals) |->
        [tag |-> g.tag, src |-> g.src,
         idx |-> IF g.tag = "raw" THEN 0 ELSE g.idx + j - 1, val |-> g.vals[j]]]

RECURSIVE Unpack(_)
Unpack(p) == IF p = <<>> THEN <<>> ELSE UnpackRun(Head(p)) \o Unpack(Tail(p))

(***************************************************************************)
(* Field elements (ark_bn254::Fr) as terms.                                *)
(***************************************************************************)
IsZeroByte(b) == b.tag = "raw" /\ b.val = 0

RECURSIVE StripTrailingZeros(_)
StripTrailingZeros(s) ==
    IF s = <<>> THEN <<>>
    ELSE IF IsZeroByte(s[Len(s)]) THEN StripTrailingZeros(SubSeq(s, 1, Len(s) - 1))
    ELSE s

\* Fr::from_le_bytes_mod_order: the integer whose little-endian bytes are s.
FrFromLeBytes(s) == [tag |-> "num", x |-> Pack(StripTrailingZeros(s)), y |-> <<>>]

\* The little-endian bytes of the integer of a "num" term, without trailing zeros.
LeBytes(fe) == Unpack(fe.x)

\* Fr::from_be_bytes_mod_order
FrFromBeBytes(s) == FrFromLeBytes(Reverse(s))

RECURSIVE NatToLe(_)
NatToLe(n) == IF n = 0 THEN <<>> ELSE <<n % 256>> \o NatToLe(n \div 256)

\* Fr::from(n) for a machine integer that fits TLC's integers (a length, a salt).
FrFromNat(n) == FrFromLeBytes(RawSeq(NatToLe(n)))

\* Fr::from(x) for a u64 / u128 given by its big-endian digits.
FrFromUint(digits) == FrFromLeBytes(Reverse(RawSeq(digits)))

FrZero == FrFromNat(0)

\* fe.into_bigint().to_bytes_be(): 32 bytes, most significant first.
PadBe(le) == Reverse(le \o Zeros(FIELD_BYTES - Len(le)))

ToBytesBe(fe) ==
    IF fe.tag = "num"
    THEN PadBe(LeBytes(fe))
    ELSE [i \in 1..FIELD_BYTES |-> [tag |-> "ser", src |-> <<fe>>, idx |-> i, val |-> 0]]

(***************************************************************************)
(* lib/src/crypto.rs                                                       *)
(***************************************************************************)
\* Poseidon over two field elements, an ideal hash: a term over its inputs.
poseidon_hash(left, right) == [tag |-> "H", x |-> <<left>>, y |-> <<right>>]

\* Keccak-256, an ideal hash: HASH_LENGTH digest bytes, each a term over the input.
keccak256(input) ==
    LET packed == Pack(input)
    IN  [i \in 1..HASH_LENGTH |-> [tag |-> "kec", src |-> packed, idx |-> i, val |-> 0]]

hash_ethereum_address(address) == keccak256(address)

\* A conversion that takes the first 64 bytes.
bytes_to_field_element_64_bytes(bytes) ==
    IF bytes = <<>> THEN FrZero ELSE FrFromLeBytes(SubSeq(bytes, 1, MinNat(Len(bytes), 64)))

bytes_to_field_element(bytes) ==
    IF bytes = <<>> THEN FrZero
    ELSE LET copy_len == MinNat(Len(bytes), FIELD_BYTES)
             hash_input == SubSeq(bytes, 1, copy_len) \o Zeros(FIELD_BYTES - copy_len)
         IN  FrFromLeBytes(hash_input)

\* An address taken from the last bytes of the hash, as Ethereum takes an address
\* from a Keccak digest.
derive_burn_address_last_bytes(preimage) ==
    LET burn_bytes == ToBytesBe(poseidon_hash(preimage, preimage))
    IN  SubSeq(burn_bytes, Len(burn_bytes) - ADDRESS_LENGTH + 1, Len(burn_bytes))

derive_burn_address(preimage) ==
    LET burn_hash == poseidon_hash(preimage, preimage)
        burn_bytes == ToBytesBe(burn_hash)
    IN  [i \in 1..ADDRESS_LENGTH |-> IF i <= Len(burn_bytes) THEN burn_bytes[i] ELSE Raw(0)]

\* A nullifier that does not depend on the preimage.
generate_nullifier_of_zero(preimage) == poseidon_hash(FrZero, FrZero)

generate_nullifier(preimage) == poseidon_hash(preimage, FrZero)

\* A balance that is never encrypted.
process_balance_plain(balance, salt, encrypted) == balance

process_balance(balance, salt, encrypted) ==
    IF encrypted THEN poseidon_hash(balance, salt) ELSE balance

\* result |= x ^ y over the zipped bytes; result == 0
constant_time_eq(a, b) ==
    IF Len(a) # Len(b) THEN FALSE
    ELSE \A i \in 1..Len(a) : a[i] = b[i]

crypto_contains_substring(substring, main_string) ==
    IF Len(substring) > Len(main_string) THEN FALSE
    ELSE \E i \in 0..(Len(main_string) - Len(substring)) :
            constant_time_eq(Slice(main_string, i, i + Len(substring)), substring)

(***************************************************************************)
(* RLP (the rlp crate's RlpStream, as encode_account_rlp uses it).         *)
(***************************************************************************)
RECURSIVE NatToBe(_)
NatToBe(n) == IF n = 0 THEN <<>> ELSE NatToBe(n \div 256) \o <<n % 256>>

\* RlpStream::append(&bytes): one byte string item.
RlpString(bytes) ==
    IF Len(bytes) = 0 THEN <<Raw(128)>>
    ELSE IF Len(bytes) = 1 /\ bytes[1].tag = "raw" /\ bytes[1].val < 128 THEN bytes
    ELSE IF Len(bytes) <= 55 THEN <<Raw(128 + Len(bytes))>> \o bytes
    ELSE <<Raw(183 + Len(NatToBe(Len(bytes))))>> \o RawSeq(NatToBe(Len(bytes))) \o bytes

\* A list header of one byte whatever the length of the payload.
RlpList_one_byte_header(payload) == <<Raw(192 + Len(payload))>> \o payload

\* RlpStream::new_list(n) ... out(): the list header before the items' bytes.
RlpList(payload) ==
    IF Len(payload) <= 55 THEN <<Raw(192 + Len(payload))>> \o payload
    ELSE <<Raw(247 + Len(NatToBe(Len(payload))))>> \o RawSeq(NatToBe(Len(payload))) \o payload

\* All the digits, leading zeros kept.
KeepLeadingZeros(digits) == digits

\* .into_iter().skip_while(|&x| x == 0).collect()
RECURSIVE SkipLeadingZeros(_)
SkipLeadingZeros(digits) ==
    IF digits = <<>> THEN <<>>
    ELSE IF Head(digits) = 0 THEN SkipLeadingZeros(Tail(digits))
    ELSE digits

(***************************************************************************)
(* lib/src/account_verification.rs                                         *)
(***************************************************************************)
\* nonce: the 8 big-endian digits of a u64; balance: the 16 of a u128.
encode_account_rlp(nonce, balance, storage_hash, code_hash) ==
    LET nonce_bytes == RawSeq(SkipLeadingZeros(nonce))
        balance_bytes == RawSeq(SkipLeadingZeros(balance))
    IN  RlpList(RlpString(nonce_bytes) \o RlpString(balance_bytes)
                \o RlpString(storage_hash) \o RlpString(code_hash))

generate_expected_prefix(burn_address, account_rlp_len) ==
    LET address_hash == hash_ethereum_address(burn_address)
    IN  [i \in 1..SECURITY_PARAMETER |-> address_hash[HASH_LENGTH - SECURITY_PARAMETER + i]]
        \o <<Raw(1 + 128 + 55), Raw(account_rlp_len % 256)>>

\* A leaf commitment whose length is that of the account RLP alone.
calculate_upper_layer_commitment_rlp_length(lower_layer_prefix, prefix_len, account_rlp, salt) ==
    poseidon_hash(
        poseidon_hash(
            bytes_to_field_element(Slice(Slice(lower_layer_prefix, 0, prefix_len) \o account_rlp,
                                         0, MinNat(32, prefix_len + Len(account_rlp)))),
            FrFromNat(Len(account_rlp))),
        salt)

\* Defined when prefix_len <= Len(lower_layer_prefix); the slice panics otherwise.
calculate_upper_layer_commitment(lower_layer_prefix, prefix_len, account_rlp, salt) ==
    LET upper_layer_bytes == Slice(lower_layer_prefix, 0, prefix_len) \o account_rlp
        upper_layer_hash ==
            poseidon_hash(
                bytes_to_field_element(
                    Slice(upper_layer_bytes, 0, MinNat(32, Len(upper_layer_bytes)))),
                FrFromNat(Len(upper_layer_bytes)))
    IN  poseidon_hash(upper_layer_hash, salt)

\* The 0-based offsets at which account_rlp starts in last_proof, as the loop of
\* verify_account_proof_structure visits them.
RlpOffsets(last_proof, account_rlp) ==
    {i \in 0..SaturatingSub(Len(last_proof), Len(account_rlp)) :
        /\ i + Len(account_rlp) <= Len(last_proof)
        /\ Slice(last_proof, i, i + Len(account_rlp)) = account_rlp}

\* A structure check without the guard on the number of layers.
structure_exit_any_length(account_proof, account_rlp) ==
    IF Len(account_proof) < 2 THEN [line |-> 184, value |-> TRUE]
    ELSE LET last_proof == account_proof[Len(account_proof)]
             previous_proof == account_proof[Len(account_proof) - 1]
             offsets == RlpOffsets(last_proof, account_rlp)
         IN  IF offsets = {} THEN [line |-> 205, value |-> FALSE]
             ELSE LET i == Min(offsets)
                      hash == keccak256(Slice(last_proof, 0, i) \o account_rlp)
                  IN  [line |-> 200,
                       value |-> crypto_contains_substring(hash, previous_proof)]

\* A structure check that accepts the leaf without looking for its hash in the
\* parent.
structure_exit_unlinked(account_proof, account_rlp) ==
    IF Len(account_proof) < 2 THEN [line |-> 184, value |-> FALSE]
    ELSE LET last_proof == account_proof[Len(account_proof)]
             offsets == RlpOffsets(last_proof, account_rlp)
         IN  IF offsets = {} THEN [line |-> 205, value |-> FALSE]
             ELSE [line |-> 200, value |-> TRUE]

\* verify_account_proof_structure, with the source line of the return taken:
\* 184 (fewer than 2 layers), 200 (the first window that matches decides),
\* 205 (no window matches).
structure_exit(account_proof, account_rlp) ==
    IF Len(account_proof) < 2 THEN [line |-> 184, value |-> FALSE]
    ELSE LET last_proof == account_proof[Len(account_proof)]
             previous_proof == account_proof[Len(account_proof) - 1]
             offsets == RlpOffsets(last_proof, account_rlp)
         IN  IF offsets = {} THEN [line |-> 205, value |-> FALSE]
             ELSE LET i == Min(offsets)
                      prefix == Slice(last_proof, 0, i)
                      combined == prefix \o account_rlp
                      hash == keccak256(combined)
                  IN  [line |-> 200,
                       value |-> crypto_contains_substring(hash, previous_proof)]

verify_account_proof_structure(account_proof, account_rlp) ==
    structure_exit(account_proof, account_rlp).value

\* The result of a call: ok with outputs, or a panic (its message and where).
Ok(outputs) == [ok |-> TRUE, panic |-> "none", at |-> 0, out |-> <<outputs>>]

Panic(msg, where) == [ok |-> FALSE, panic |-> msg, at |-> where, out |-> <<>>]

\* Steps 7 and 8 of verify_account_proof: the commitment (whose slice panics when
\* lower_layer_prefix_len exceeds the prefix) and the three outputs.
account_proof_outputs(inputs, account_rlp) ==
    LET nullifier == generate_nullifier(inputs.burn_preimage)
        balance_fr == FrFromUint(inputs.balance)
        encrypted_balance == process_balance(balance_fr, inputs.salt, inputs.encrypted)
    IN  IF inputs.lower_layer_prefix_len > Len(inputs.lower_layer_prefix)
        THEN Panic("range end index out of range for slice", 155)
        ELSE Ok([commit_upper |->
                     calculate_upper_layer_commitment(inputs.lower_layer_prefix,
                         inputs.lower_layer_prefix_len, account_rlp, inputs.salt),
                 encrypted_balance |-> encrypted_balance,
                 nullifier |-> nullifier])

\* Steps 5 to 8, without the state-root check of step 6.
account_proof_steps_no_state_root(inputs, account_rlp, exit) ==
    IF ~exit.value
    THEN Panic("Account proof verification failed: invalid MPT proof structure",
               exit.line)
    ELSE account_proof_outputs(inputs, account_rlp)

\* Steps 5 to 8, the state-root check of step 6 made before the structure check
\* of step 5.
account_proof_steps_state_root_first(inputs, account_rlp, exit) ==
    IF /\ inputs.account_proof # <<>>
       /\ keccak256(inputs.account_proof[1]) # inputs.state_root
    THEN Panic("State root verification failed", 260)
    ELSE IF ~exit.value
    THEN Panic("Account proof verification failed: invalid MPT proof structure",
               exit.line)
    ELSE account_proof_outputs(inputs, account_rlp)

\* Steps 5 to 8 of verify_account_proof; exit is what
\* verify_account_proof_structure returned, and where.
account_proof_steps(inputs, account_rlp, exit) ==
    IF ~exit.value
    THEN Panic("Account proof verification failed: invalid MPT proof structure",
               exit.line)
    ELSE IF /\ inputs.account_proof # <<>>
            /\ keccak256(inputs.account_proof[1]) # inputs.state_root
    THEN Panic("State root verification failed", 260)
    ELSE account_proof_outputs(inputs, account_rlp)

account_proof_checks(inputs, account_rlp) ==
    account_proof_steps(inputs, account_rlp,
                        structure_exit(inputs.account_proof, account_rlp))

\* inputs: AccountProofInputs.  burn_preimage and salt are field elements.
verify_account_proof(inputs) ==
    account_proof_checks(inputs,
                         encode_account_rlp(inputs.nonce, inputs.balance,
                                            inputs.storage_hash, inputs.code_hash))

(***************************************************************************)
(* lib/src/merkle_proof.rs                                                 *)
(***************************************************************************)
\* A search whose range of offsets excludes the last one.
merkle_contains_substring_exclusive_range(substring, main_string) ==
    IF Len(substring) > Len(main_string) THEN FALSE
    ELSE \E i \in 0..(Len(main_string) - Len(substring) - 1) :
            Slice(main_string, i, i + Len(substring)) = substring

merkle_contains_substring(substring, main_string) ==
    IF Len(substring) > Len(main_string) THEN FALSE
    ELSE \E i \in 0..(Len(main_string) - Len(substring)) :
            Slice(main_string, i, i + Len(substring)) = substring

generate_layer_commitment(layer_bytes, num_bytes, salt) ==
    LET layer_hash == bytes_to_field_element(layer_bytes)
        layer_with_length == poseidon_hash(layer_hash, FrFromNat(num_bytes))
    IN  poseidon_hash(layer_with_length, salt)

\* An upper commitment that is the base commitment for the top layer too.
calculate_upper_commitment_base_only(upper_layer_bytes, num_upper_bytes, lower_layer_keccak, salt, is_top) ==
    poseidon_hash(poseidon_hash(bytes_to_field_element(upper_layer_bytes),
                                FrFromNat(num_upper_bytes)),
                  salt)

calculate_upper_commitment(upper_layer_bytes, num_upper_bytes, lower_layer_keccak, salt, is_top) ==
    LET upper_layer_hash == bytes_to_field_element(upper_layer_bytes)
        commit_upper_to_len == poseidon_hash(upper_layer_hash, FrFromNat(num_upper_bytes))
        commit_upper_to_salt == poseidon_hash(commit_upper_to_len, salt)
    IN  IF is_top
        THEN poseidon_hash(commit_upper_to_salt, bytes_to_field_element(lower_layer_keccak))
        ELSE commit_upper_to_salt

\* A constraint that asks nothing of the top layer.
verify_substring_constraint_top_free(keccak_lower, upper_layer_bytes, is_top) ==
    LET substring_found == merkle_contains_substring(keccak_lower, upper_layer_bytes)
    IN  is_top \/ substring_found

\* TRUE for Ok(()), FALSE for Err("Substring containment constraint violated").
verify_substring_constraint(keccak_lower, upper_layer_bytes, is_top) ==
    LET substring_found == merkle_contains_substring(keccak_lower, upper_layer_bytes)
    IN  (is_top /\ ~substring_found) \/ (~is_top /\ substring_found)

\* inputs: MerklePathInputs.
verify_merkle_path(inputs) ==
    LET commit_lower == generate_layer_commitment(inputs.lower_layer_bytes,
                            inputs.num_lower_layer_bytes, inputs.salt)
        keccak_lower_layer == keccak256(inputs.lower_layer_bytes)
        commit_upper == calculate_upper_commitment(inputs.upper_layer_bytes,
                            inputs.num_upper_layer_bytes, keccak_lower_layer,
                            inputs.salt, inputs.is_top)
    IN  IF ~verify_substring_constraint(keccak_lower_layer, inputs.upper_layer_bytes,
                                        inputs.is_top)
        THEN Panic("Substring containment constraint must be satisfied", 204)
        ELSE Ok([commit_upper |-> commit_upper, commit_lower |-> commit_lower])

(***************************************************************************)
(* script/src/lib.rs: the host wallet.                                     *)
(***************************************************************************)
\* The same Poseidon call as poseidon_hash of the core: the same term.
compute_poseidon_hash(left, right) == [tag |-> "H", x |-> <<left>>, y |-> <<right>>]

\* Wallet::derive_ethereum_address_from_preimage
derive_ethereum_address_from_preimage(preimage) ==
    LET hashed == compute_poseidon_hash(preimage, preimage)
        hashed_bytes == ToBytesBe(hashed)
    IN  [i \in 1..20 |-> IF i <= Len(hashed_bytes) THEN hashed_bytes[i] ELSE Raw(0)]

(***************************************************************************)
(* program/src/main.rs: helpers.                                           *)
(***************************************************************************)
main_contains_substring(substring, main_string) ==
    IF Len(substring) > Len(main_string) THEN FALSE
    ELSE \E i \in 0..(Len(main_string) - Len(substring)) :
            Slice(main_string, i, i + Len(substring)) = substring

compute_keccak256(input) == keccak256(input)

\* A u32 is held as its 4 big-endian bytes, packed.
U32ToBeBytes(u) == Unpack(u)

\* The u32 of the four most significant bytes of the serialization.
field_element_to_u32_high(field_element) ==
    LET bytes == ToBytesBe(field_element)
    IN  Pack([i \in 1..4 |-> IF i <= Len(bytes) THEN bytes[i] ELSE Raw(0)])

\* u32::from_be_bytes of bytes 28..31 of the serialization.
field_element_to_u32(field_element) ==
    LET bytes == ToBytesBe(field_element)
    IN  Pack([i \in 1..4 |-> IF 28 + i <= Len(bytes) THEN bytes[28 + i] ELSE Raw(0)])

\* TRUE when verify_state_root returns, FALSE when it panics.
verify_state_root(level, state_root) == compute_keccak256(level) = state_root

\* A hop check that never panics.
verify_intermediate_layer_unchecked(level, next_level) == TRUE

\* TRUE when verify_intermediate_layer returns, FALSE when it panics.
verify_intermediate_layer(level, next_level) ==
    main_contains_substring(compute_keccak256(level), next_level)

\* A root closure whose upper layer is the digest of the top layer.
root_proof_inputs_upper_digest(level, salt_fr) ==
    [is_top |-> TRUE,
     num_upper_layer_bytes |-> 1,
     upper_layer_bytes |-> compute_keccak256(level),
     num_lower_layer_bytes |-> Len(level),
     lower_layer_bytes |-> level,
     salt |-> salt_fr]

\* A root closure that declares the length of the zero buffer.
root_proof_inputs_declared_length(level, salt_fr) ==
    [is_top |-> TRUE,
     num_upper_layer_bytes |-> ROOT_UPPER_ZEROS,
     upper_layer_bytes |-> Zeros(ROOT_UPPER_ZEROS),
     num_lower_layer_bytes |-> Len(level),
     lower_layer_bytes |-> level,
     salt |-> salt_fr]

root_proof_inputs(level, salt_fr) ==
    [is_top |-> TRUE,
     num_upper_layer_bytes |-> 1,
     upper_layer_bytes |-> Zeros(ROOT_UPPER_ZEROS),
     num_lower_layer_bytes |-> Len(level),
     lower_layer_bytes |-> level,
     salt |-> salt_fr]

\* The call result of the PATH circuit, and on success the root proof as a u32.
root_proof_of(r) ==
    IF r.ok THEN Ok(field_element_to_u32(r.out[1].commit_upper)) ELSE r

generate_root_proof(level, salt_fr) ==
    root_proof_of(verify_merkle_path(root_proof_inputs(level, salt_fr)))

\* A hop that declares the minimal upper length, as the root closure does.
path_proof_inputs_minimal_upper(level, next_level, salt_fr) ==
    [is_top |-> FALSE,
     num_upper_layer_bytes |-> 1,
     upper_layer_bytes |-> next_level,
     num_lower_layer_bytes |-> Len(level),
     lower_layer_bytes |-> level,
     salt |-> salt_fr]

path_proof_inputs(level, next_level, salt_fr) ==
    [is_top |-> FALSE,
     num_upper_layer_bytes |-> Len(next_level),
     upper_layer_bytes |-> next_level,
     num_lower_layer_bytes |-> Len(level),
     lower_layer_bytes |-> level,
     salt |-> salt_fr]

\* On success the pair (path_proof, layer_commitment) of u32.
path_proof_of(r) ==
    IF r.ok
    THEN Ok([path_proof |-> field_element_to_u32(r.out[1].commit_upper),
             layer_commitment |-> field_element_to_u32(r.out[1].commit_lower)])
    ELSE r

generate_path_proof(level, next_level, salt_fr) ==
    path_proof_of(verify_merkle_path(path_proof_inputs(level, next_level, salt_fr)))

(***************************************************************************)
(* The witnesses the model runs the program on.  A witness is built from a  *)
(* generation record gen: the fixture of the unit tests                    *)
(* (create_test_inputs), or a proof chain of gen.depth layers, top first,  *)
(* to which one tampering is applied.                                      *)
(***************************************************************************)
\* Bit masks a tampering xors into one byte.
Masks == {1, 255}

\* The leaf node: prefix || account_rlp ("honest"), followed by one more byte
\* ("suffix"), by account_rlp again ("double"), or by the RLP of the account whose
\* storage_hash differs in one bit ("twin"); or the leaf of another address
\* ("bad_tail").
LeafShapes == {"honest", "suffix", "double", "twin", "bad_tail"}

\* The leaf's parent holds keccak(leaf) ("whole"), keccak(prefix || account_rlp)
\* ("first"), or the two ("both").
ParentShapes == {"whole", "first", "both"}

NoTamper == [kind |-> "none", layer |-> 0, pos |-> 0, mask |-> 0]

\* 10^18 wei as a u128: 0x0000000000000000_0DE0B6B3A7640000.
OneEther == <<0, 0, 0, 0, 0, 0, 0, 0, 13, 224, 182, 179, 167, 100, 0, 0>>

ZeroU64 == <<0, 0, 0, 0, 0, 0, 0, 0>>

\* main.rs: Fr::from_be_bytes_mod_order(inputs.burn_preimage.as_slice())
burn_preimage_fr(inputs) == FrFromBeBytes(inputs.burn_preimage)

\* main.rs: Fr::from(inputs.salt)
salt_fr(inputs) == FrFromNat(inputs.salt)

\* account_verification.rs tests: create_test_inputs, as the guest would read it.
FixtureInputs(encrypted) ==
    [burn_preimage |-> RawSeq(<<123>>),
     lower_layer_prefix_len |-> 0,
     lower_layer_prefix |-> <<>>,
     nonce |-> ZeroU64,
     balance |-> OneEther,
     storage_hash |-> Zeros(ACCOUNT_HASH_BYTES),
     code_hash |-> Zeros(ACCOUNT_HASH_BYTES),
     account_proof |-> <<>>,
     state_root |-> Zeros(HASH_LENGTH),
     salt |-> 789,
     encrypted |-> encrypted]

\* A trie node that refers to its children by their digests.
Node(digests) == <<Raw(17)>> \o digests \o <<Raw(18)>>

\* layers[1] is the top; the chain has depth layers and ends with leaf.
RECURSIVE ChainAbove(_, _)
ChainAbove(lowest, n) ==
    IF n = 0 THEN <<>>
    ELSE ChainAbove(Node(keccak256(lowest)), n - 1) \o <<Node(keccak256(lowest))>>

\* The account of the chain: nonce 0, one ether, and its RLP.
ChainStorageHash == Fill(1, ACCOUNT_HASH_BYTES)

ChainCodeHash == Fill(2, ACCOUNT_HASH_BYTES)

ChainAccountRlp == encode_account_rlp(ZeroU64, OneEther, ChainStorageHash, ChainCodeHash)

\* The bytes of the leaf before the account RLP: one byte, then the tail of the
\* burn address of the preimage 123 (of 124 for the leaf of another address).
ChainPrefix(leaf_shape) ==
    <<Raw(249)>>
    \o generate_expected_prefix(
            derive_burn_address(
                FrFromBeBytes(RawSeq(<<IF leaf_shape = "bad_tail" THEN 124 ELSE 123>>))),
            Len(ChainAccountRlp))

\* The bytes of the leaf after the account RLP.
ChainLeafRest(leaf_shape) ==
    CASE leaf_shape = "suffix" -> <<Raw(7)>>
      [] leaf_shape = "double" -> ChainAccountRlp
      [] leaf_shape = "twin" ->
            encode_account_rlp(ZeroU64, OneEther, FlipAt(ChainStorageHash, 0, 1),
                               ChainCodeHash)
      [] OTHER -> <<>>

\* The leaf's parent; first is prefix || account_rlp.
ChainParent(parent_shape, first, leaf) ==
    CASE parent_shape = "first" -> Node(keccak256(first))
      [] parent_shape = "both" -> Node(keccak256(first) \o keccak256(leaf))
      [] OTHER -> Node(keccak256(leaf))

ChainProof(depth, parent, leaf) ==
    IF depth = 0 THEN <<>>
    ELSE IF depth = 1 THEN <<leaf>>
    ELSE ChainAbove(parent, depth - 2) \o <<parent, leaf>>

ChainWitness(depth, encrypted, prefix, account_proof) ==
    [burn_preimage |-> RawSeq(<<123>>),
     lower_layer_prefix_len |-> Len(prefix),
     lower_layer_prefix |-> prefix,
     nonce |-> ZeroU64,
     balance |-> OneEther,
     storage_hash |-> ChainStorageHash,
     code_hash |-> ChainCodeHash,
     account_proof |-> account_proof,
     state_root |-> IF depth = 0 THEN Zeros(HASH_LENGTH)
                    ELSE keccak256(account_proof[1]),
     salt |-> 789,
     encrypted |-> encrypted]

ChainOfLeaf(depth, parent_shape, encrypted, prefix, first, leaf) ==
    ChainWitness(depth, encrypted, prefix,
                 ChainProof(depth, ChainParent(parent_shape, first, leaf), leaf))

ChainOfPrefix(depth, leaf_shape, parent_shape, encrypted, prefix) ==
    ChainOfLeaf(depth, parent_shape, encrypted, prefix, prefix \o ChainAccountRlp,
                prefix \o ChainAccountRlp \o ChainLeafRest(leaf_shape))

\* The witness of a chain of depth layers, its state root that of the top layer.
ChainInputs(depth, leaf_shape, parent_shape, encrypted) ==
    ChainOfPrefix(depth, leaf_shape, parent_shape, encrypted, ChainPrefix(leaf_shape))

\* The witness before the tampering.
BaseInputs(gen) ==
    IF gen.kind = "fixture" THEN FixtureInputs(gen.encrypted)
    ELSE ChainInputs(gen.depth, gen.leaf_shape, gen.parent_shape, gen.encrypted)

Tamper(w, t) ==
    CASE t.kind = "state_root" ->
            [w EXCEPT !.state_root = FlipAt(@, t.pos, t.mask)]
      [] t.kind = "reverse" ->
            [w EXCEPT !.account_proof = Reverse(@)]
      [] t.kind = "storage_hash" ->
            [w EXCEPT !.storage_hash = FlipAt(@, t.pos, t.mask)]
      [] t.kind = "code_hash" ->
            [w EXCEPT !.code_hash = FlipAt(@, t.pos, t.mask)]
      [] t.kind = "layer" ->
            [w EXCEPT !.account_proof[t.layer + 1] = FlipAt(@, t.pos, t.mask)]
      [] t.kind = "prefix_byte" ->
            [w EXCEPT !.lower_layer_prefix = FlipAt(@, t.pos, t.mask)]
      [] t.kind = "prefix_len" ->
            [w EXCEPT !.lower_layer_prefix_len = t.pos]
      [] OTHER -> w

MkInputs(gen) == Tamper(BaseInputs(gen), gen.tamper)

\* account_proof reversed.
Reversal == [kind |-> "reverse", layer |-> 0, pos |-> 0, mask |-> 0]

\* The single-byte tamperings of the witness w.
ByteTampers(w) ==
    {[kind |-> "state_root", layer |-> 0, pos |-> p, mask |-> m] :
        p \in 0..(HASH_LENGTH - 1), m \in Masks}
    \cup {[kind |-> k, layer |-> 0, pos |-> p, mask |-> m] :
        k \in {"storage_hash", "code_hash"}, p \in 0..(ACCOUNT_HASH_BYTES - 1), m \in Masks}
    \cup UNION {{[kind |-> "layer", layer |-> l, pos |-> p, mask |-> m] :
                    p \in 0..(Len(w.account_proof[l + 1]) - 1), m \in Masks} :
                l \in 0..(Len(w.account_proof) - 1)}
    \cup {[kind |-> "prefix_byte", layer |-> 0, pos |-> p, mask |-> m] :
            p \in 0..(Len(w.lower_layer_prefix) - 1), m \in Masks}
    \cup {[kind |-> "prefix_len", layer |-> 0, pos |-> p, mask |-> 0] :
            p \in (0..(Len(w.lower_layer_prefix) + 1)) \ {w.lower_layer_prefix_len}}

ChainGen(d, ls, ps, e, t) ==
    [kind |-> "chain", depth |-> d, leaf_shape |-> ls, parent_shape |-> ps,
     encrypted |-> e, tamper |-> t]

Gens ==
    {[kind |-> "fixture", depth |-> 0, leaf_shape |-> "honest", parent_shape |-> "whole",
      encrypted |-> e, tamper |-> NoTamper] : e \in BOOLEAN}
    \cup {ChainGen(d, ls, ps, e, NoTamper) :
            d \in 0..MaxDepth, ls \in LeafShapes, ps \in ParentShapes, e \in BOOLEAN}
    \cup {ChainGen(d, ls, ps, FALSE, Reversal) :
            d \in 2..MaxDepth, ls \in LeafShapes, ps \in ParentShapes}
    \cup UNION {{ChainGen(d, "honest", "whole", FALSE, t) :
                    t \in ByteTampers(ChainInputs(d, "honest", "whole", FALSE))} :
                d \in 2..MaxDepth}
    \cup {ChainGen(2, "twin", "both", FALSE, t) :
            t \in {u \in ByteTampers(ChainInputs(2, "twin", "both", FALSE)) :
                     u.kind \in {"storage_hash", "code_hash"}}}

(***************************************************************************)
(* program/src/main.rs: the guest program, one run per witness.            *)
(***************************************************************************)
VARIABLES
    gen,              \* how the witness of this run was generated
    inputs,           \* ProofInputs, as read_proof_inputs returns them
    pc,               \* "main", "loop", "commit_public", "commit_proof", "done", "aborted"
    fail,             \* the panic that aborted the run: [panic, at]
    circuit_outputs,  \* <<>> or <<AccountProofOutputs>>
    index,            \* the loop index of process_mpt_path_proofs
    path_proofs,      \* Vec<u32>
    layers,           \* Vec<u32>
    root_proof,       \* Option<u32>: <<>> or <<u32>>
    committed,        \* what was committed to the output stream, in order
    path_call,        \* a direct call of the PATH circuit: <<>> or <<MerklePathInputs>>
    path_result,      \* and its result: <<>> or <<result>>
    lib_call,         \* a unit test of the library: [fn, args], one call per element of args
    lib_result,       \* the values the calls made so far returned, in order
    wallet_file,      \* the wallet file of the host: absent, a wallet, or truncated
    mint_result       \* <<>> or <<the result of the last call of mint_cmd>>

vars == <<gen, inputs, pc, fail, circuit_outputs, index, path_proofs, layers,
          root_proof, committed, path_call, path_result, lib_call, lib_result,
                   wallet_file, mint_result>>

NoCall == [fn |-> "none", args |-> <<>>]

\* No wallet file in the working directory.
NoWalletFile == [state |-> "absent", entropy |-> 0, coins |-> <<>>]

NoFail == [panic |-> "none", at |-> 0]

FailOf(r) == [panic |-> r.panic, at |-> r.at]

\* main.rs: the MptLastInputs main builds; the proof chain and the state root of
\* the witness are the circuit's account_proof and state_root.
\* Inputs whose salt changes with every call that was made before.
circuit_inputs_salt_per_call(in) ==
    [burn_preimage |-> burn_preimage_fr(in),
     lower_layer_prefix_len |-> in.lower_layer_prefix_len,
     lower_layer_prefix |-> in.lower_layer_prefix,
     nonce |-> in.nonce,
     balance |-> in.balance,
     storage_hash |-> in.storage_hash,
     code_hash |-> in.code_hash,
     salt |-> FrFromNat(in.salt + Len(lib_result)),
     encrypted |-> in.encrypted,
     account_proof |-> in.account_proof,
     state_root |-> in.state_root]

circuit_inputs(in) ==
    [burn_preimage |-> burn_preimage_fr(in),
     lower_layer_prefix_len |-> in.lower_layer_prefix_len,
     lower_layer_prefix |-> in.lower_layer_prefix,
     nonce |-> in.nonce,
     balance |-> in.balance,
     storage_hash |-> in.storage_hash,
     code_hash |-> in.code_hash,
     salt |-> salt_fr(in),
     encrypted |-> in.encrypted,
     account_proof |-> in.account_proof,
     state_root |-> in.state_root]

\* The proof chain taken in the order of the witness, top first.
rev_proof_not_reversed == inputs.account_proof

\* process_mpt_path_proofs: rev_proof.reverse()
rev_proof == Reverse(inputs.account_proof)

\* (value as u32).to_be_bytes()
BeU32(n) == RawSeq(<<(n \div 16777216) % 256, (n \div 65536) % 256, (n \div 256) % 256, n % 256>>)

BeBytesOfAll(us) == Concat([i \in 1..Len(us) |-> U32ToBeBytes(us[i])])

\* A blob that holds the layer commitments before the path proofs.
encode_proof_data_layers_first(pp, lc, rp) ==
    BeU32(Len(lc)) \o BeBytesOfAll(lc) \o BeU32(Len(pp)) \o BeBytesOfAll(pp)
    \o (IF rp = <<>> THEN <<>> ELSE U32ToBeBytes(rp[1]))

encode_proof_data(pp, lc, rp) ==
    BeU32(Len(pp)) \o BeBytesOfAll(pp) \o BeU32(Len(lc)) \o BeBytesOfAll(lc)
    \o (IF rp = <<>> THEN <<>> ELSE U32ToBeBytes(rp[1]))

\* PublicValuesStruct, before its ABI encoding.
public_values(in, outputs) ==
    [burn_preimage |-> in.burn_preimage,
     commit_upper |-> field_element_to_u32(outputs.commit_upper),
     encrypted_balance |-> field_element_to_u32(outputs.encrypted_balance),
     nullifier |-> field_element_to_u32(outputs.nullifier),
     encrypted |-> in.encrypted]

(***************************************************************************)
(* The guest program as one call, for the tests that run it: the same      *)
(* steps, a panic returned as the result.                                  *)
(***************************************************************************)
\* The top layer: the state root, then the root proof.
process_top_layer(level, state_root, salt, pp, lc) ==
    IF ~verify_state_root(level, state_root)
    THEN Panic("State root verification failed!", 204)
    ELSE \* generate_root_proof panics or returns the u32
         IF ~generate_root_proof(level, salt).ok THEN generate_root_proof(level, salt)
         ELSE Ok([path_proofs |-> pp, layers |-> lc,
                  root_proof |-> generate_root_proof(level, salt).out])

\* The loop of process_mpt_path_proofs from the iteration idx on.
RECURSIVE process_layers_from(_, _, _, _, _, _)
process_layers_from(rev, state_root, salt, idx, pp, lc) ==
    IF idx >= Len(rev)
    THEN Ok([path_proofs |-> pp, layers |-> lc, root_proof |-> <<>>])
    ELSE IF idx = Len(rev) - 1
    THEN process_top_layer(rev[idx + 1], state_root, salt, pp, lc)
    ELSE IF ~verify_intermediate_layer(rev[idx + 1], rev[idx + 2])
    THEN Panic("MPT path verification failed at level", idx)
    ELSE IF ~generate_path_proof(rev[idx + 1], rev[idx + 2], salt).ok
    THEN generate_path_proof(rev[idx + 1], rev[idx + 2], salt)
    ELSE process_layers_from(rev, state_root, salt, idx + 1,
            Append(pp, generate_path_proof(rev[idx + 1], rev[idx + 2], salt).out[1].path_proof),
            Append(lc, generate_path_proof(rev[idx + 1], rev[idx + 2], salt).out[1].layer_commitment))

process_mpt_path_proofs(account_proof, state_root, salt) ==
    process_layers_from(Reverse(account_proof), state_root, salt, 0, <<>>, <<>>)

\* commit_proof_outputs: the two items committed.
commit_proof_outputs(in, outputs, proofs) ==
    <<[what |-> "public_values", data |-> <<public_values(in, outputs)>>],
      [what |-> "proof_data",
       data |-> Pack(encode_proof_data(proofs.path_proofs, proofs.layers, proofs.root_proof))]>>

main_steps_6_7(in, outputs, proofs) ==
    IF ~proofs.ok THEN proofs
    ELSE Ok(commit_proof_outputs(in, outputs, proofs.out[1]))

main_steps_5_7(in, last) ==
    IF ~last.ok THEN last
    ELSE main_steps_6_7(in, last.out[1],
                        process_mpt_path_proofs(in.account_proof, in.state_root, salt_fr(in)))

\* The output stream of a run, or its panic.
main(in) == main_steps_5_7(in, verify_account_proof(circuit_inputs(in)))

Init ==
    /\ gen \in Gens
    /\ inputs = MkInputs(gen)
    /\ pc = "main"
    /\ fail = NoFail
    /\ circuit_outputs = <<>>
    /\ index = 0
    /\ path_proofs = <<>>
    /\ layers = <<>>
    /\ root_proof = <<>>
    /\ committed = <<>>
    /\ path_call = <<>>
    /\ path_result = <<>>
    /\ lib_call = NoCall
    /\ lib_result = <<>>
    /\ wallet_file = NoWalletFile
    /\ mint_result = <<>>

Abort(r) ==
    /\ pc' = "aborted"
    /\ fail' = FailOf(r)

\* main, steps 1 to 5: the account-leaf circuit.
RunLast ==
    /\ pc = "main"
    /\ \E r \in {verify_account_proof(circuit_inputs(inputs))} :
           IF r.ok
           THEN /\ circuit_outputs' = r.out
                /\ pc' = IF inputs.account_proof = <<>> THEN "commit_public" ELSE "loop"
                /\ fail' = fail
           ELSE /\ Abort(r)
                /\ circuit_outputs' = circuit_outputs
    /\ UNCHANGED <<gen, inputs, index, path_proofs, layers, root_proof, committed,
                   path_call, path_result, lib_call, lib_result,
                   wallet_file, mint_result>>

\* process_mpt_path_proofs, an iteration with index < len - 1.
ProcessIntermediateLayer ==
    /\ pc = "loop"
    /\ index < Len(rev_proof) - 1
    /\ \E level \in {rev_proof[index + 1]}, next_level \in {rev_proof[index + 2]} :
           IF ~verify_intermediate_layer(level, next_level)
           THEN /\ Abort(Panic("MPT path verification failed at level", index))
                /\ UNCHANGED <<index, path_proofs, layers>>
           ELSE \E r \in {generate_path_proof(level, next_level, salt_fr(inputs))} :
                    IF ~r.ok
                    THEN /\ Abort(r)
                         /\ UNCHANGED <<index, path_proofs, layers>>
                    ELSE /\ path_proofs' = Append(path_proofs, r.out[1].path_proof)
                         /\ layers' = Append(layers, r.out[1].layer_commitment)
                         /\ index' = index + 1
                         /\ UNCHANGED <<pc, fail>>
    /\ UNCHANGED <<gen, inputs, circuit_outputs, root_proof, committed,
                   path_call, path_result, lib_call, lib_result,
                   wallet_file, mint_result>>

\* process_mpt_path_proofs, the last iteration: the top layer.
ProcessTopLayer ==
    /\ pc = "loop"
    /\ index = Len(rev_proof) - 1
    /\ \E level \in {rev_proof[index + 1]} :
           IF ~verify_state_root(level, inputs.state_root)
           THEN /\ Abort(Panic("State root verification failed!", 204))
                /\ UNCHANGED root_proof
           ELSE \E r \in {generate_root_proof(level, salt_fr(inputs))} :
                    IF ~r.ok
                    THEN /\ Abort(r)
                         /\ UNCHANGED root_proof
                    ELSE /\ root_proof' = r.out
                         /\ pc' = "commit_public"
                         /\ fail' = fail
    /\ UNCHANGED <<gen, inputs, circuit_outputs, index, path_proofs, layers, committed,
                   path_call, path_result, lib_call, lib_result,
                   wallet_file, mint_result>>

\* The public values committed as soon as the account-leaf circuit returned,
\* before the layers are processed.
CommitPublicValues_before_layers ==
    /\ pc = "loop"
    /\ committed = <<>>
    /\ committed' = Append(committed,
                           [what |-> "public_values",
                            data |-> <<public_values(inputs, circuit_outputs[1])>>])
    /\ UNCHANGED <<gen, inputs, pc, fail, circuit_outputs, index, path_proofs, layers,
                   root_proof, path_call, path_result, lib_call, lib_result,
                   wallet_file, mint_result>>

\* commit_proof_outputs: sp1_zkvm::io::commit_slice(&public_values)
CommitPublicValues ==
    /\ pc = "commit_public"
    /\ committed' = Append(committed,
                           [what |-> "public_values",
                            data |-> <<public_values(inputs, circuit_outputs[1])>>])
    /\ pc' = "commit_proof"
    /\ UNCHANGED <<gen, inputs, fail, circuit_outputs, index, path_proofs, layers,
                   root_proof, path_call, path_result, lib_call, lib_result,
                   wallet_file, mint_result>>

\* commit_proof_outputs: sp1_zkvm::io::commit_slice(&proof_data)
CommitProofData ==
    /\ pc = "commit_proof"
    /\ committed' = Append(committed,
                           [what |-> "proof_data",
                            data |-> Pack(encode_proof_data(path_proofs, layers, root_proof))])
    /\ pc' = "done"
    /\ UNCHANGED <<gen, inputs, fail, circuit_outputs, index, path_proofs, layers,
                   root_proof, path_call, path_result, lib_call, lib_result,
                   wallet_file, mint_result>>

Next ==
    \/ RunLast
    \/ ProcessIntermediateLayer
    \/ ProcessTopLayer
    \/ CommitPublicValues
    \/ CommitProofData

Spec == Init /\ [][Next]_vars

(***************************************************************************)
(* A direct call of the PATH circuit (the unit tests of merkle_proof.rs).  *)
(***************************************************************************)
PathLowers == {<<>>, Fill(2, 50), Fill(4, 25), Node(keccak256(Fill(2, 50)))}

PathUppers(lower) ==
    {<<>>,
     Zeros(ROOT_UPPER_ZEROS),
     Fill(1, 100),
     keccak256(lower),
     SubSeq(keccak256(lower), 1, HASH_LENGTH - 1),
     Tail(keccak256(lower)) \o <<Head(keccak256(lower))>>,
     Node(keccak256(lower)),
     Node(FlipAt(keccak256(lower), HASH_LENGTH - 1, 1)),
     Node(keccak256(lower \o <<Raw(0)>>)),
     Fill(8, 10) \o keccak256(lower) \o Fill(8, 58)}

PathCalls ==
    UNION {{[is_top |-> t,
             num_upper_layer_bytes |-> Len(u),
             upper_layer_bytes |-> u,
             num_lower_layer_bytes |-> Len(l),
             lower_layer_bytes |-> l,
             salt |-> FrFromNat(s)] :
            t \in BOOLEAN, u \in PathUppers(l), s \in {789, 999}} : l \in PathLowers}

IdleGen ==
    [kind |-> "none", depth |-> 0, leaf_shape |-> "honest", parent_shape |-> "whole",
     encrypted |-> FALSE, tamper |-> NoTamper]

InitPath ==
    /\ path_call \in {<<c>> : c \in PathCalls}
    /\ path_result = <<>>
    /\ gen = IdleGen
    /\ inputs = <<>>
    /\ pc = "idle"
    /\ fail = NoFail
    /\ circuit_outputs = <<>>
    /\ index = 0
    /\ path_proofs = <<>>
    /\ layers = <<>>
    /\ root_proof = <<>>
    /\ committed = <<>>
    /\ lib_call = NoCall
    /\ lib_result = <<>>
    /\ wallet_file = NoWalletFile
    /\ mint_result = <<>>

InvokePath ==
    /\ path_call # <<>>
    /\ path_result = <<>>
    /\ path_result' = <<verify_merkle_path(path_call[1])>>
    /\ UNCHANGED <<gen, inputs, pc, fail, circuit_outputs, index, path_proofs, layers,
                   root_proof, committed, path_call, lib_call, lib_result,
                   wallet_file, mint_result>>

NextPath == InvokePath

SpecPath == InitPath /\ [][NextPath]_vars

(***************************************************************************)
(* Unit tests of the library: a test calls one function on each element of *)
(* args in turn and keeps the values returned.                             *)
(***************************************************************************)
\* Preimages as field elements: small values and a 31-byte value.
LibPreimages ==
    {FrFromNat(n) : n \in {0, 1, 2, 123, 124, 255, 256, 65535}}
    \cup {FrFromBeBytes(Fill(255, 31)), FrFromBeBytes(<<Raw(1)>> \o Zeros(30))}

AddressTests ==
    {[fn |-> f, args |-> <<p>>] :
        f \in {"derive_burn_address", "derive_ethereum_address_from_preimage"},
        p \in LibPreimages}

\* Two calls of generate_nullifier, on equal and on different preimages.
NullifierTests ==
    {[fn |-> "generate_nullifier", args |-> <<p1, p2>>] :
        p1 \in LibPreimages, p2 \in LibPreimages}

\* The witnesses of the tests that call a circuit or the program twice: the
\* untampered and the reversed ones, and those tampered in a first byte.
LibWitnesses ==
    {MkInputs(g) : g \in {h \in Gens : \/ h.tamper.kind \in {"none", "reverse"}
                                       \/ h.tamper.pos = 0 /\ h.tamper.mask = 1}}

\* The same inputs twice (inputs.clone()).
TwiceTests ==
    {[fn |-> "verify_account_proof", args |-> <<circuit_inputs(w), circuit_inputs(w)>>] :
        w \in LibWitnesses}
    \cup {[fn |-> "verify_merkle_path", args |-> <<c, c>>] : c \in PathCalls}
    \cup {[fn |-> "main", args |-> <<w, w>>] : w \in LibWitnesses}

\* Accounts: nonces (u64) and balances (u128) around the encoding's case
\* boundaries (zero, one byte below and from 128, several bytes, all bytes), and
\* hashes of data bytes and of digest bytes.
LibNonces ==
    {<<0, 0, 0, 0, 0, 0, 0, 0>>, <<0, 0, 0, 0, 0, 0, 0, 1>>, <<0, 0, 0, 0, 0, 0, 0, 127>>,
     <<0, 0, 0, 0, 0, 0, 0, 128>>, <<0, 0, 0, 0, 0, 0, 1, 0>>, <<0, 0, 0, 1, 0, 0, 0, 0>>,
     <<255, 255, 255, 255, 255, 255, 255, 255>>}

LibBalances ==
    {[i \in 1..16 |-> 0], [i \in 1..16 |-> IF i = 16 THEN 1 ELSE 0],
     [i \in 1..16 |-> IF i = 16 THEN 128 ELSE 0], [i \in 1..16 |-> IF i = 8 THEN 1 ELSE 0],
     OneEther, [i \in 1..16 |-> 255]}

LibHashes ==
    {Zeros(ACCOUNT_HASH_BYTES), Fill(255, ACCOUNT_HASH_BYTES), keccak256(<<>>)}

RlpTests ==
    {[fn |-> "encode_account_rlp",
      args |-> <<[nonce |-> n, balance |-> b, storage_hash |-> sh, code_hash |-> ch]>>] :
        n \in LibNonces, b \in LibBalances, sh \in LibHashes, ch \in LibHashes}

\* Field elements for the conversions: integers below, at and above 2^32, and
\* Poseidon images.
LibFieldElements ==
    {FrFromUint(b) : b \in LibBalances}
    \cup {FrFromUint(d) : d \in {<<255, 255, 255, 255>>, <<1, 0, 0, 0, 0>>,
                                 <<1, 2, 3, 4, 5, 6>>, <<1, 2, 0, 0, 0, 7>>}}
    \cup {poseidon_hash(p, FrZero) : p \in LibPreimages}

U32Tests == {[fn |-> "field_element_to_u32", args |-> <<fe>>] : fe \in LibFieldElements}

\* Lower layers that differ within their first 32 bytes, beyond them, and in
\* trailing zeros alone.
PairLowers ==
    {Fill(7, 40), FlipAt(Fill(7, 40), 0, 1), FlipAt(Fill(7, 40), 35, 1),
     <<Raw(1)>>, <<Raw(1), Raw(0)>>}

\* Root closures on them: the declared length is the layer's or 1.
PairCalls ==
    {[is_top |-> TRUE,
      num_upper_layer_bytes |-> 1,
      upper_layer_bytes |-> Zeros(ROOT_UPPER_ZEROS),
      num_lower_layer_bytes |-> n,
      lower_layer_bytes |-> l,
      salt |-> FrFromNat(s)] :
        l \in PairLowers, n \in {1, 40}, s \in {789, 999}}

\* Two calls of the PATH circuit on two inputs.
PathPairTests ==
    {[fn |-> "verify_merkle_path", args |-> <<c1, c2>>] : c1 \in PairCalls, c2 \in PairCalls}

\* Byte strings of up to MaxSubLen bytes over two byte values.
SubBytes == UNION {[1..n -> {Raw(1), Raw(2)}] : n \in 0..MaxSubLen}

\* One input given to the three copies of contains_substring in turn.
SubstringTests ==
    {[fn |-> "contains_substring",
      args |-> <<[copy |-> "crypto", substring |-> s, main_string |-> m],
                 [copy |-> "merkle_proof", substring |-> s, main_string |-> m],
                 [copy |-> "main", substring |-> s, main_string |-> m]>>] :
        s \in SubBytes, m \in SubBytes}

LibTests == AddressTests \cup NullifierTests \cup TwiceTests \cup RlpTests \cup U32Tests \cup PathPairTests \cup SubstringTests

InitLib ==
    /\ lib_result = <<>>
    /\ lib_call \in LibTests
    /\ path_call = <<>>
    /\ path_result = <<>>
    /\ gen = IdleGen
    /\ inputs = <<>>
    /\ pc = "idle"
    /\ fail = NoFail
    /\ circuit_outputs = <<>>
    /\ index = 0
    /\ path_proofs = <<>>
    /\ layers = <<>>
    /\ root_proof = <<>>
    /\ committed = <<>>
    /\ wallet_file = NoWalletFile
    /\ mint_result = <<>>

\* The test of fn has a call left to make.
Pending(fn) == lib_call.fn = fn /\ Len(lib_result) < Len(lib_call.args)

NextArg == lib_call.args[Len(lib_result) + 1]

Returns(value) ==
    /\ lib_result' = Append(lib_result, value)
    /\ UNCHANGED <<gen, inputs, pc, fail, circuit_outputs, index, path_proofs, layers,
                   root_proof, committed, path_call, path_result, lib_call,
                   wallet_file, mint_result>>

CallDeriveBurnAddress ==
    /\ Pending("derive_burn_address")
    /\ Returns(derive_burn_address(NextArg))

CallDeriveEthereumAddress ==
    /\ Pending("derive_ethereum_address_from_preimage")
    /\ Returns(derive_ethereum_address_from_preimage(NextArg))

CallGenerateNullifier ==
    /\ Pending("generate_nullifier")
    /\ Returns(generate_nullifier(NextArg))

CallVerifyAccountProof ==
    /\ Pending("verify_account_proof")
    /\ Returns(verify_account_proof(NextArg))

CallVerifyMerklePath ==
    /\ Pending("verify_merkle_path")
    /\ Returns(verify_merkle_path(NextArg))

\* A run of the guest program on the witness.
CallMain ==
    /\ Pending("main")
    /\ Returns(main(NextArg))

CallEncodeAccountRlp ==
    /\ Pending("encode_account_rlp")
    /\ Returns(encode_account_rlp(NextArg.nonce, NextArg.balance, NextArg.storage_hash,
                                  NextArg.code_hash))

CallFieldElementToU32 ==
    /\ Pending("field_element_to_u32")
    /\ Returns(field_element_to_u32(NextArg))

CallCryptoContainsSubstring ==
    /\ Pending("contains_substring")
    /\ NextArg.copy = "crypto"
    /\ Returns(crypto_contains_substring(NextArg.substring, NextArg.main_string))

CallMerkleContainsSubstring ==
    /\ Pending("contains_substring")
    /\ NextArg.copy = "merkle_proof"
    /\ Returns(merkle_contains_substring(NextArg.substring, NextArg.main_string))

CallMainContainsSubstring ==
    /\ Pending("contains_substring")
    /\ NextArg.copy = "main"
    /\ Returns(main_contains_substring(NextArg.substring, NextArg.main_string))

NextLib ==
    \/ CallDeriveBurnAddress
    \/ CallDeriveEthereumAddress
    \/ CallGenerateNullifier
    \/ CallVerifyAccountProof
    \/ CallVerifyMerklePath
    \/ CallMain
    \/ CallEncodeAccountRlp
    \/ CallFieldElementToU32
    \/ CallCryptoContainsSubstring
    \/ CallMerkleContainsSubstring
    \/ CallMainContainsSubstring

SpecLib == InitLib /\ [][NextLib]_vars

(***************************************************************************)
(* The vocabulary of the properties: the errors of the specification, as   *)
(* the panics of the code, and the validity of a witness, stated on the    *)
(* bytes of the witness.                                                   *)
(***************************************************************************)
StructurePanic == "Account proof verification failed: invalid MPT proof structure"

\* verify_account_proof_structure returned false at its length guard.
ChainTooShort(f) == f.panic = StructurePanic /\ f.at = 184

\* ... after its scan of the leaf found no window equal to the account RLP.
InvalidLeafStructure(f) == f.panic = StructurePanic /\ f.at = 205

\* ... because the parent does not hold the hash of prefix || account_rlp.
ParentLinkMissing(f) == f.panic = StructurePanic /\ f.at = 200

\* The state-root panic of the account-leaf circuit.
LastStateRootMismatch(f) == f.panic = "State root verification failed" /\ f.at = 260

\* The state-root panic of the orchestrator's top-layer step.
TopStateRootMismatch(f) == f.panic = "State root verification failed!" /\ f.at = 204

StateRootMismatch(f) == LastStateRootMismatch(f) \/ TopStateRootMismatch(f)

\* The orchestrator's panic at the hop whose lower layer is rev_proof[hop].
ContainmentMissingAt(f, hop) ==
    f.panic = "MPT path verification failed at level" /\ f.at = hop

\* The panic of the PATH circuit.
ConstraintPanic(f) ==
    f.panic = "Substring containment constraint must be satisfied" /\ f.at = 204

LastRan == pc \notin {"main", "idle"}

LastAccepted == circuit_outputs # <<>>

LastRejected == pc = "aborted" /\ circuit_outputs = <<>> /\ committed = <<>>

Ended == pc \in {"done", "aborted"}

\* sub starts at the 0-based offset i of s.
MatchesAt(sub, s, i) ==
    /\ i + Len(sub) <= Len(s)
    /\ \A j \in 1..Len(sub) : s[i + j] = sub[j]

Occurs(sub, s) == \E i \in 0..(Len(s) - Len(sub)) : MatchesAt(sub, s, i)

\* The offset of the first occurrence, left to right; defined when sub occurs.
FirstOffset(sub, s) ==
    CHOOSE i \in 0..(Len(s) - Len(sub)) :
        /\ MatchesAt(sub, s, i)
        /\ \A k \in 0..(i - 1) : ~MatchesAt(sub, s, k)

EndsWith(s, t) ==
    /\ Len(t) <= Len(s)
    /\ \A j \in 1..Len(t) : s[Len(s) - Len(t) + j] = t[j]

AccountRlp(w) == encode_account_rlp(w.nonce, w.balance, w.storage_hash, w.code_hash)

Leaf(w) == w.account_proof[Len(w.account_proof)]

LeafParent(w) == w.account_proof[Len(w.account_proof) - 1]

\* The bytes of the leaf before the first occurrence of the account RLP.
LeafPrefix(w) == Slice(Leaf(w), 0, FirstOffset(AccountRlp(w), Leaf(w)))

\* The last 20 bytes of keccak(burn address), 0xb8, the length of the RLP.
ExpectedTail(w) ==
    LET h == keccak256(derive_burn_address(burn_preimage_fr(w)))
    IN  SubSeq(h, Len(h) - 19, Len(h)) \o <<Raw(184), Raw(Len(AccountRlp(w)))>>

\* The chain of w: two layers at least, the leaf embeds the account RLP after a
\* prefix with the expected tail, each layer's hash occurs in the layer above it,
\* and the top layer hashes to the state root.
ValidWitness(w) ==
    /\ Len(w.account_proof) >= 2
    /\ Occurs(AccountRlp(w), Leaf(w))
    /\ EndsWith(LeafPrefix(w), ExpectedTail(w))
    /\ Occurs(keccak256(LeafPrefix(w) \o AccountRlp(w)), LeafParent(w))
    /\ \A i \in 2..Len(w.account_proof) :
            Occurs(keccak256(w.account_proof[i]), w.account_proof[i - 1])
    /\ keccak256(w.account_proof[1]) = w.state_root

\* The witness before its tampering was valid.
BaseValid == gen.kind = "chain" /\ ValidWitness(BaseInputs(gen))

(***************************************************************************)
(* C1.  The account-leaf circuit accepts only witnesses whose leaf prefix  *)
(* (the bytes of the leaf before the account RLP) ends with the 22 bytes   *)
(* of the expected tail.  The code computes the tail nowhere on the path   *)
(* of verify_account_proof: the leaf of another address is accepted.       *)
(***************************************************************************)
C1_AcceptedPrefixEndsWithTail ==
    (LastAccepted /\ inputs.account_proof # <<>>)
        => /\ Occurs(AccountRlp(inputs), Leaf(inputs))
           /\ EndsWith(LeafPrefix(inputs), ExpectedTail(inputs))

C3_FixtureReturnsOutputs ==
    (gen.kind = "fixture" /\ LastRan)
        => /\ LastAccepted
           /\ ~inputs.encrypted
                => circuit_outputs[1].encrypted_balance = FrFromUint(inputs.balance)

(***************************************************************************)
(* C4.  The account-leaf circuit accepts only if the Keccak image of       *)
(* account_proof[0] is the state root, and a valid witness whose state     *)
(* root has one byte changed (one bit, or all its bits) is rejected by it  *)
(* with the state-root panic.                                              *)
(***************************************************************************)
C4_StateRootClosure ==
    /\ (LastAccepted /\ inputs.account_proof # <<>>)
            => keccak256(inputs.account_proof[1]) = inputs.state_root
    /\ (gen.tamper.kind = "state_root" /\ BaseValid /\ LastRan)
            => LastRejected /\ LastStateRootMismatch(fail)

C4_Witness ==
    /\ gen.tamper.kind = "state_root" /\ gen.tamper.mask = 1 /\ BaseValid
    /\ LastRejected /\ LastStateRootMismatch(fail)

C6_ParentLinkage ==
    /\ LastAccepted
        => /\ Len(inputs.account_proof) >= 2
           /\ Occurs(AccountRlp(inputs), Leaf(inputs))
           /\ Occurs(keccak256(LeafPrefix(inputs) \o AccountRlp(inputs)),
                     LeafParent(inputs))
    /\ (LastRan /\ Len(inputs.account_proof) >= 2)
        => IF ~Occurs(AccountRlp(inputs), Leaf(inputs))
           THEN LastRejected /\ InvalidLeafStructure(fail)
           ELSE ~Occurs(keccak256(LeafPrefix(inputs) \o AccountRlp(inputs)),
                        LeafParent(inputs))
                    => LastRejected /\ ParentLinkMissing(fail)

\* The RLP occurs twice in the leaf and the parent holds the image that ends at
\* the first occurrence.
C6_Witness ==
    /\ gen.leaf_shape = "double" /\ gen.parent_shape = "first" /\ gen.tamper = NoTamper
    /\ LastAccepted
    /\ Leaf(inputs) = LeafPrefix(inputs) \o AccountRlp(inputs) \o AccountRlp(inputs)
    /\ ~Occurs(keccak256(Leaf(inputs)), LeafParent(inputs))

(***************************************************************************)
(* C7.  In every accepted run lower_layer_prefix_len is the offset of the  *)
(* account RLP in the leaf and the first lower_layer_prefix_len bytes of   *)
(* lower_layer_prefix are the leaf's bytes before it.  The code compares   *)
(* neither with the leaf.                                                  *)
(***************************************************************************)
C7_PrefixIsLeafPrefix ==
    (LastAccepted /\ inputs.account_proof # <<>>)
        => /\ Occurs(AccountRlp(inputs), Leaf(inputs))
           /\ inputs.lower_layer_prefix_len = Len(LeafPrefix(inputs))
           /\ Slice(inputs.lower_layer_prefix, 0, inputs.lower_layer_prefix_len)
                = LeafPrefix(inputs)

(***************************************************************************)
(* C8.  A valid witness of which one byte of storage_hash or of code_hash  *)
(* is flipped is rejected by the account-leaf circuit.  In the code the    *)
(* rejection rests on the scan of the leaf alone: a leaf that also embeds  *)
(* the RLP of the flipped account, behind the real one, is accepted.       *)
(***************************************************************************)
C8_HashFlipRejected ==
    (gen.tamper.kind \in {"storage_hash", "code_hash"} /\ BaseValid /\ LastRan)
        => LastRejected /\ InvalidLeafStructure(fail)

(***************************************************************************)
(* C9.  As the specification has it: a valid witness of 3 layers or more,  *)
(* one byte of an intermediate layer flipped, aborts with the containment  *)
(* panic of the hop in which that layer is the lower layer.                *)
(***************************************************************************)
IntermediateFlip ==
    /\ gen.tamper.kind = "layer"
    /\ gen.depth >= 3
    /\ 0 < gen.tamper.layer /\ gen.tamper.layer < gen.depth - 1

\* The hop (loop index) in which the flipped layer is the lower layer.
OwnHop == gen.depth - 1 - gen.tamper.layer

C9_FlipFailsAtOwnHop ==
    (IntermediateFlip /\ BaseValid /\ Ended)
        => pc = "aborted" /\ ContainmentMissingAt(fail, OwnHop)

\* C9, as the code has it: the run aborts, nothing committed, at the first broken
\* link from the bottom.  That is the layer's own hop only when the hash of the
\* layer below still occurs in the flipped layer; when the flipped byte lies in
\* that hash the link below breaks first: the circuit's parent-linkage check (or
\* hop 0) when the layer is the leaf's parent, the hop one lower otherwise.  (The
\* parent of the flipped layer is taken not to hold the hash of the flipped
\* layer.)
C9_FlipFailsAtFirstBrokenLink ==
    (IntermediateFlip /\ BaseValid /\ Ended
        /\ ~Occurs(keccak256(inputs.account_proof[gen.tamper.layer + 1]),
                   inputs.account_proof[gen.tamper.layer]))
        => /\ pc = "aborted"
           /\ committed = <<>>
           /\ IF Occurs(keccak256(inputs.account_proof[gen.tamper.layer + 2]),
                        inputs.account_proof[gen.tamper.layer + 1])
              THEN ContainmentMissingAt(fail, OwnHop)
              ELSE IF gen.tamper.layer = gen.depth - 2
              THEN \/ ParentLinkMissing(fail) /\ circuit_outputs = <<>>
                   \/ ContainmentMissingAt(fail, 0)
              ELSE ContainmentMissingAt(fail, OwnHop - 1)

\* A byte of the child's hash is flipped in a layer two above the leaf: the hop
\* below the layer's own fails.
C9_Witness ==
    /\ IntermediateFlip /\ BaseValid /\ gen.tamper.layer < gen.depth - 2
    /\ ~Occurs(keccak256(inputs.account_proof[gen.tamper.layer + 2]),
               inputs.account_proof[gen.tamper.layer + 1])
    /\ pc = "aborted" /\ ContainmentMissingAt(fail, OwnHop - 1)

TopLayer(w) == w.account_proof[1]

RootClosureDone == pc \in {"commit_public", "commit_proof", "done"} /\ inputs.account_proof # <<>>

\* C11: the root closure never finds the top layer's hash in the zero buffer and
\* never panics.
C11_RootClosureNeverContains ==
    /\ pc = "aborted" => ~ConstraintPanic(fail)
    /\ (pc = "loop" /\ index = Len(rev_proof) - 1)
            => /\ rev_proof[index + 1] = TopLayer(inputs)
               /\ ~Occurs(keccak256(TopLayer(inputs)),
                          root_proof_inputs(TopLayer(inputs), salt_fr(inputs)).upper_layer_bytes)
               /\ verify_state_root(TopLayer(inputs), inputs.state_root)
                    => generate_root_proof(TopLayer(inputs), salt_fr(inputs)).ok
    /\ RootClosureDone
            => /\ root_proof # <<>>
               /\ root_proof = generate_root_proof(TopLayer(inputs), salt_fr(inputs)).out

C11_Witness ==
    /\ RootClosureDone /\ gen.depth >= 3 /\ gen.tamper = NoTamper
    /\ Len(path_proofs) = gen.depth - 1
    /\ root_proof # <<>>
    /\ fail = NoFail

(***************************************************************************)
(* C12.  No partial outputs: an aborted run has committed nothing, and     *)
(* each of the two commits is made in a state in which every check of the  *)
(* run has succeeded: the account-leaf circuit returned its outputs, the   *)
(* hash of each layer occurs in the layer above it, every call of the PATH *)
(* circuit returned, and the top layer hashes to the state root.           *)
(***************************************************************************)
AllChecksPassed ==
    /\ LastAccepted
    /\ fail = NoFail
    /\ Len(inputs.account_proof) >= 2
    /\ Occurs(AccountRlp(inputs), Leaf(inputs))
    /\ Occurs(keccak256(LeafPrefix(inputs) \o AccountRlp(inputs)), LeafParent(inputs))
    /\ \A i \in 2..Len(inputs.account_proof) :
            Occurs(keccak256(inputs.account_proof[i]), inputs.account_proof[i - 1])
    /\ keccak256(inputs.account_proof[1]) = inputs.state_root
    /\ Len(path_proofs) = Len(inputs.account_proof) - 1
    /\ Len(layers) = Len(inputs.account_proof) - 1
    /\ root_proof # <<>>

\* C12: nothing is committed by an aborted run, and each commit is made after
\* every check of the run succeeded.
C12_NoPartialOutputs ==
    /\ [](pc = "aborted" => committed = <<>>)
    /\ [](committed # <<>> => AllChecksPassed)
    /\ [][committed' # committed
            => /\ AllChecksPassed
               /\ pc \in {"commit_public", "commit_proof"}
               /\ pc' # "aborted"]_vars

\* A run aborted at a hop above the first, after a pair was appended.
C12_Witness ==
    /\ pc = "aborted" /\ index >= 1 /\ path_proofs # <<>> /\ LastAccepted
    /\ ContainmentMissingAt(fail, index)
    /\ committed = <<>>

(***************************************************************************)
(* C13.  A run that ends without a panic has committed exactly two items,  *)
(* first the public values, then the blob                                  *)
(* be_u32(N) || pp_1..pp_N || be_u32(M) || lc_1..lc_M || root_proof of     *)
(* 4-byte big-endian words, N = M = len(account_proof) - 1, the root proof *)
(* present; before the second commit the stream holds the public values    *)
(* alone.                                                                  *)
(***************************************************************************)
\* The k-th 4-byte word of blob, k from 0.
Word(blob, k) == SubSeq(blob, 4 * k + 1, 4 * k + 4)

Hops(w) == Len(w.account_proof) - 1

\* C13: two commits, the public values and then the blob of 2 * N + 3 words.
C13_CommitLayout ==
    /\ Len(committed) <= 2
    /\ pc = "commit_proof"
            => /\ Len(committed) = 1
               /\ committed[1].what = "public_values"
    /\ pc = "done"
            => /\ Len(committed) = 2
               /\ committed[1].what = "public_values"
               /\ committed[1].data = <<public_values(inputs, circuit_outputs[1])>>
               /\ committed[2].what = "proof_data"
               /\ Len(path_proofs) = Hops(inputs)
               /\ Len(layers) = Hops(inputs)
               /\ root_proof # <<>>
               /\ LET blob == Unpack(committed[2].data)
                      N == Hops(inputs)
                  IN  /\ Len(blob) = 4 * (2 * N + 3)
                      /\ Word(blob, 0) = BeU32(N)
                      /\ \A i \in 1..N : Word(blob, i) = U32ToBeBytes(path_proofs[i])
                      /\ Word(blob, N + 1) = BeU32(N)
                      /\ \A i \in 1..N :
                            Word(blob, N + 1 + i) = U32ToBeBytes(layers[i])
                      /\ Word(blob, 2 * N + 2) = U32ToBeBytes(root_proof[1])

\* The longest chain of the model: its blob holds distinct path proofs and layer
\* commitments.
C13_Witness ==
    /\ pc = "done" /\ gen.depth = MaxDepth /\ Len(committed) = 2
    /\ Len(path_proofs) = MaxDepth - 1
    /\ \A i \in 1..Len(path_proofs) : path_proofs[i] # layers[i]
    /\ Len(Unpack(committed[2].data)) = 4 * (2 * MaxDepth + 1)

(***************************************************************************)
(* C14.  After the account-leaf circuit returned, the layers are processed *)
(* strictly bottom-to-top.  With Layer(0) the leaf, hop i (i from 0 to     *)
(* len - 2) is taken only when the Keccak image of Layer(i) occurs in      *)
(* Layer(i + 1), and appends at position i the pair of the PATH circuit    *)
(* called with is_top = false, upper = Layer(i + 1), lower = Layer(i); the *)
(* root closure on Layer(len - 1) comes after all hops; a run that aborts  *)
(* in the loop aborts at the first hop whose containment is missing, with  *)
(* the hop's own panic, and processes nothing after it.                    *)
(***************************************************************************)
\* The i-th layer from the bottom of the witness's chain.
Layer(i) == inputs.account_proof[Len(inputs.account_proof) - i]

HopCall(i) ==
    [is_top |-> FALSE,
     num_upper_layer_bytes |-> Len(Layer(i + 1)),
     upper_layer_bytes |-> Layer(i + 1),
     num_lower_layer_bytes |-> Len(Layer(i)),
     lower_layer_bytes |-> Layer(i),
     salt |-> salt_fr(inputs)]

RootCall ==
    [is_top |-> TRUE,
     num_upper_layer_bytes |-> 1,
     upper_layer_bytes |-> Zeros(ROOT_UPPER_ZEROS),
     num_lower_layer_bytes |-> Len(Layer(Hops(inputs))),
     lower_layer_bytes |-> Layer(Hops(inputs)),
     salt |-> salt_fr(inputs)]

C14_HopTaken ==
    index' # index
        => /\ pc = "loop" /\ LastAccepted
           /\ index < Hops(inputs)
           /\ index' = index + 1
           /\ Occurs(keccak256(Layer(index)), Layer(index + 1))
           /\ verify_merkle_path(HopCall(index)).ok
           /\ path_proofs' =
                Append(path_proofs,
                       field_element_to_u32(verify_merkle_path(HopCall(index)).out[1].commit_upper))
           /\ layers' =
                Append(layers,
                       field_element_to_u32(verify_merkle_path(HopCall(index)).out[1].commit_lower))
           /\ root_proof = <<>> /\ root_proof' = <<>>

C14_RootClosureLast ==
    root_proof' # root_proof
        => /\ pc = "loop" /\ LastAccepted
           /\ index = Hops(inputs)
           /\ Len(path_proofs) = Hops(inputs)
           /\ UNCHANGED <<index, path_proofs, layers>>
           /\ root_proof = <<>>
           /\ root_proof' =
                <<field_element_to_u32(verify_merkle_path(RootCall).out[1].commit_upper)>>

C14_StopsAtFirstFailure ==
    /\ (pc = "loop" /\ pc' = "aborted")
        => /\ UNCHANGED <<index, path_proofs, layers, root_proof>>
           /\ index < Hops(inputs)
           /\ ~Occurs(keccak256(Layer(index)), Layer(index + 1))
           /\ \A i \in 0..(index - 1) : Occurs(keccak256(Layer(i)), Layer(i + 1))
           /\ ContainmentMissingAt(fail', index)
    /\ pc = "aborted" => UNCHANGED vars

\* C14: hops in ascending order from the leaf, the root closure last, no step
\* after the first failure.
C14_BottomToTop ==
    /\ []((index > 0 \/ root_proof # <<>>) => LastAccepted)
    /\ [](Len(path_proofs) = index /\ Len(layers) = index)
    /\ [][C14_HopTaken /\ C14_RootClosureLast /\ C14_StopsAtFirstFailure]_vars

\* Two hops were taken and a third is to come.
C14_Witness ==
    /\ pc = "loop" /\ index = 2 /\ Hops(inputs) >= 3
    /\ Len(path_proofs) = 2 /\ path_proofs[1] # path_proofs[2]
    /\ gen.tamper = NoTamper

(***************************************************************************)
(* C15.  The outputs of an accepted call of the PATH circuit:              *)
(* commit_lower = H(H(bytes_to_field(lower), num_lower), salt); with       *)
(* base_upper = H(H(bytes_to_field(upper), num_upper), salt), commit_upper *)
(* is base_upper when is_top is false and                                  *)
(* H(base_upper, bytes_to_field(keccak(lower))) when it is true; the upper *)
(* commitments of the same upper, lower and salt with and without is_top   *)
(* differ.                                                                 *)
(***************************************************************************)
\* The two-to-one hash of the specification, as a term.
H(a, b) == [tag |-> "H", x |-> <<a>>, y |-> <<b>>]

BaseUpper(call) ==
    H(H(bytes_to_field_element(call.upper_layer_bytes), FrFromNat(call.num_upper_layer_bytes)),
      call.salt)

UpperCommitmentOf(call, is_top) ==
    calculate_upper_commitment(call.upper_layer_bytes, call.num_upper_layer_bytes,
                               keccak256(call.lower_layer_bytes), call.salt, is_top)

\* C15: the commitments of an accepted PATH call are the formulas above.
C15_PathCommitments ==
    (path_result # <<>> /\ path_result[1].ok)
        => /\ path_result[1].out[1].commit_lower =
                H(H(bytes_to_field_element(path_call[1].lower_layer_bytes),
                    FrFromNat(path_call[1].num_lower_layer_bytes)),
                  path_call[1].salt)
           /\ path_result[1].out[1].commit_upper =
                IF path_call[1].is_top
                THEN H(BaseUpper(path_call[1]),
                       bytes_to_field_element(keccak256(path_call[1].lower_layer_bytes)))
                ELSE BaseUpper(path_call[1])
           /\ UpperCommitmentOf(path_call[1], TRUE) # UpperCommitmentOf(path_call[1], FALSE)

\* An accepted top call on a non-empty upper layer.
C15_Witness ==
    /\ path_result # <<>> /\ path_result[1].ok
    /\ path_call[1].is_top
    /\ path_call[1].upper_layer_bytes # <<>> /\ path_call[1].lower_layer_bytes # <<>>
    /\ path_result[1].out[1].commit_upper # BaseUpper(path_call[1])

(***************************************************************************)
(* C16.  The outputs of an accepted call of the account-leaf circuit:      *)
(* encrypted_balance is the balance as a field element when encrypted is   *)
(* false and H(balance, salt) when it is true, and then differs from the   *)
(* balance (the salt is not zero); nullifier is H(preimage, 0) in both     *)
(* cases.                                                                  *)
(***************************************************************************)
C16_BalanceAndNullifier ==
    LastAccepted
        => /\ circuit_outputs[1].encrypted_balance =
                IF inputs.encrypted
                THEN H(FrFromUint(inputs.balance), salt_fr(inputs))
                ELSE FrFromUint(inputs.balance)
           /\ (inputs.encrypted /\ inputs.salt # 0)
                => circuit_outputs[1].encrypted_balance # FrFromUint(inputs.balance)
           /\ circuit_outputs[1].nullifier = H(burn_preimage_fr(inputs), FrFromNat(0))

C16_Witness ==
    /\ LastAccepted /\ inputs.encrypted /\ inputs.salt # 0
    /\ circuit_outputs[1].encrypted_balance = H(FrFromUint(inputs.balance), salt_fr(inputs))
    /\ circuit_outputs[1].nullifier = H(burn_preimage_fr(inputs), FrFromNat(0))

(***************************************************************************)
(* C17.  For every preimage p the core's derive_burn_address(p) is the     *)
(* first 20 bytes of the 32-byte big-endian serialization of H(p, p), and  *)
(* the host wallet's derive_ethereum_address_from_preimage(p) is the same  *)
(* 20 bytes.                                                               *)
(***************************************************************************)
\* serialize_be(H(p, p))[0..20]
AddressOfPreimage(p) == SubSeq(ToBytesBe(H(p, p)), 1, 20)

C17_HostAndCoreAddress ==
    /\ (lib_call.fn = "derive_burn_address" /\ lib_result # <<>>)
        => /\ Len(ToBytesBe(H(lib_call.args[1], lib_call.args[1]))) = 32
           /\ lib_result[1] = AddressOfPreimage(lib_call.args[1])
           /\ lib_result[1] = derive_ethereum_address_from_preimage(lib_call.args[1])
    /\ (lib_call.fn = "derive_ethereum_address_from_preimage" /\ lib_result # <<>>)
        => /\ lib_result[1] = AddressOfPreimage(lib_call.args[1])
           /\ lib_result[1] = derive_burn_address(lib_call.args[1])

C17_Witness ==
    /\ lib_call.fn = "derive_burn_address"
    /\ lib_call.args[1] = FrFromNat(123)
    /\ lib_result # <<>>
    /\ Len(lib_result[1]) = 20
    /\ lib_result[1] = derive_ethereum_address_from_preimage(FrFromNat(123))

(***************************************************************************)
(* C18.  Nullifier uniqueness: the nullifier of p is H(p, 0), and the      *)
(* nullifiers of two different field-element preimages differ (H taken as  *)
(* collision-free).                                                        *)
(***************************************************************************)
C18_NullifierUnique ==
    lib_call.fn = "generate_nullifier"
        => /\ \A i \in 1..Len(lib_result) :
                lib_result[i] = H(lib_call.args[i], FrFromNat(0))
           /\ (Len(lib_result) = 2 /\ lib_call.args[1] # lib_call.args[2])
                => lib_result[1] # lib_result[2]

C18_Witness ==
    /\ lib_call.fn = "generate_nullifier"
    /\ lib_call.args = <<FrFromNat(123), FrFromNat(124)>>
    /\ Len(lib_result) = 2
    /\ lib_result[1] # lib_result[2]

(***************************************************************************)
(* C19.  Determinism: two runs of the guest program on the same witness    *)
(* end with the same output stream (or the same panic), and two calls of   *)
(* the account-leaf circuit, or of the PATH circuit, on the same inputs    *)
(* return equal outputs; the first call changes nothing the second reads.  *)
(***************************************************************************)
CalledTwice(fn) ==
    /\ lib_call.fn = fn
    /\ Len(lib_result) = 2
    /\ lib_call.args[1] = lib_call.args[2]

IsData(b) == b.tag = "raw"

RECURSIVE BeToNat(_)
BeToNat(bytes) ==
    IF bytes = <<>> THEN 0
    ELSE 256 * BeToNat(SubSeq(bytes, 1, Len(bytes) - 1)) + bytes[Len(bytes)].val

NoItem == [ok |-> FALSE, list |-> FALSE, payload |-> <<>>, rest |-> <<>>]

\* The item of which hdr bytes are its header and size bytes its payload.
ItemOf(s, list, hdr, size) ==
    IF hdr + size > Len(s) THEN NoItem
    ELSE [ok |-> TRUE, list |-> list,
          payload |-> SubSeq(s, hdr + 1, hdr + size),
          rest |-> SubSeq(s, hdr + size + 1, Len(s))]

\* A long item: the size in sizelen big-endian bytes, canonical (no leading zero,
\* more than 55).
LongItemOf(s, list, sizelen) ==
    IF 1 + sizelen > Len(s) \/ \E i \in 2..(1 + sizelen) : ~IsData(s[i]) THEN NoItem
    ELSE IF s[2].val = 0 \/ BeToNat(SubSeq(s, 2, 1 + sizelen)) <= 55 THEN NoItem
    ELSE ItemOf(s, list, 1 + sizelen, BeToNat(SubSeq(s, 2, 1 + sizelen)))

\* The first item of s, and what follows it.
DecodeItem(s) ==
    IF s = <<>> \/ ~IsData(s[1]) THEN NoItem
    ELSE IF s[1].val < 128 THEN [ok |-> TRUE, list |-> FALSE, payload |-> <<s[1]>>, rest |-> Tail(s)]
    ELSE IF s[1].val <= 183
    THEN IF /\ s[1].val = 129 /\ Len(s) >= 2 /\ IsData(s[2]) /\ s[2].val < 128 THEN NoItem
         ELSE ItemOf(s, FALSE, 1, s[1].val - 128)
    ELSE IF s[1].val <= 191 THEN LongItemOf(s, FALSE, s[1].val - 183)
    ELSE IF s[1].val <= 247 THEN ItemOf(s, TRUE, 1, s[1].val - 192)
    ELSE LongItemOf(s, TRUE, s[1].val - 247)

\* What stands for an item that cannot be read: no byte string.
RlpError == <<[tag |-> "error", src |-> <<>>, idx |-> 0, val |-> 0]>>

\* The byte strings a list payload is made of; RlpError stands where an item
\* cannot be read.
RECURSIVE DecodeStrings(_)
DecodeStrings(s) ==
    IF s = <<>> THEN <<>>
    ELSE IF ~DecodeItem(s).ok \/ DecodeItem(s).list THEN <<RlpError>>
    ELSE <<DecodeItem(s).payload>> \o DecodeStrings(DecodeItem(s).rest)

\* The items of the list that bytes encodes, bytes being the list and no more.
DecodeList(bytes) ==
    IF ~DecodeItem(bytes).ok \/ ~DecodeItem(bytes).list \/ DecodeItem(bytes).rest # <<>>
    THEN <<RlpError>>
    ELSE DecodeStrings(DecodeItem(bytes).payload)

\* A canonical integer: no leading zero byte.
Minimal(bytes) == \A i \in 1..Len(bytes) : IsData(bytes[i]) /\ (i = 1 => bytes[i].val # 0)

\* The integer as width big-endian digits.
Digits(bytes, width) ==
    [i \in 1..width |-> IF i <= width - Len(bytes) THEN 0 ELSE bytes[i - (width - Len(bytes))].val]

IsZero(digits) == \A i \in 1..Len(digits) : digits[i] = 0

\* C20: the encoding decodes to the four values, the integers minimal.
C20_RlpRoundTrip ==
    (lib_call.fn = "encode_account_rlp" /\ lib_result # <<>>)
        => LET account == lib_call.args[1]
               items == DecodeList(lib_result[1])
           IN  /\ Len(items) = 4
               /\ \A k \in 1..4 : items[k] # RlpError
               /\ Minimal(items[1]) /\ Len(items[1]) <= 8
               /\ Minimal(items[2]) /\ Len(items[2]) <= 16
               /\ IsZero(account.nonce) <=> items[1] = <<>>
               /\ IsZero(account.balance) <=> items[2] = <<>>
               /\ Digits(items[1], 8) = account.nonce
               /\ Digits(items[2], 16) = account.balance
               /\ items[3] = account.storage_hash
               /\ items[4] = account.code_hash

\* Zero nonce, a balance of several bytes, hashes of digest bytes.
C20_Witness ==
    /\ lib_call.fn = "encode_account_rlp" /\ lib_result # <<>>
    /\ IsZero(lib_call.args[1].nonce)
    /\ lib_call.args[1].balance = OneEther
    /\ lib_call.args[1].storage_hash = keccak256(<<>>)
    /\ DecodeList(lib_result[1])[1] = <<>>
    /\ Len(DecodeList(lib_result[1])[2]) = 8
    /\ DecodeList(lib_result[1])[3] = keccak256(<<>>)

(***************************************************************************)
(* C21.  Each of the three public uint32 fields (commit_upper,             *)
(* encrypted_balance, nullifier) is the integer of its field element       *)
(* modulo 2^32: the four least significant bytes of the 32-byte big-endian *)
(* serialization, read big-endian.  With encrypted = false the public      *)
(* encrypted_balance is the balance modulo 2^32.                           *)
(***************************************************************************)
\* The four big-endian bytes of the integer of fe modulo 2^32: of an integer, from
\* its little-endian bytes; of a Poseidon image, bytes 29 to 32 of its
\* serialization.
Mod2To32(fe) ==
    IF fe.tag = "num"
    THEN [i \in 1..4 |-> IF 5 - i <= Len(Unpack(fe.x)) THEN Unpack(fe.x)[5 - i] ELSE Raw(0)]
    ELSE [i \in 1..4 |-> [tag |-> "ser", src |-> <<fe>>, idx |-> 28 + i, val |-> 0]]

\* The public values of a run that committed, and the circuit's outputs for them.
PublicValuesOf(result) == result.out[1][1].data[1]

LastOutputsOf(w) == verify_account_proof(circuit_inputs(w)).out[1]

\* C21: the uint32 fields are the field elements modulo 2^32.
C21_PublicFieldsMod2To32 ==
    /\ (lib_call.fn = "field_element_to_u32" /\ lib_result # <<>>)
        => Unpack(lib_result[1]) = Mod2To32(lib_call.args[1])
    /\ (lib_call.fn = "main" /\ lib_result # <<>> /\ lib_result[1].ok)
        => /\ Unpack(PublicValuesOf(lib_result[1]).commit_upper)
                = Mod2To32(LastOutputsOf(lib_call.args[1]).commit_upper)
           /\ Unpack(PublicValuesOf(lib_result[1]).encrypted_balance)
                = Mod2To32(LastOutputsOf(lib_call.args[1]).encrypted_balance)
           /\ Unpack(PublicValuesOf(lib_result[1]).nullifier)
                = Mod2To32(LastOutputsOf(lib_call.args[1]).nullifier)
           /\ ~lib_call.args[1].encrypted
                => Unpack(PublicValuesOf(lib_result[1]).encrypted_balance)
                     = RawSeq(SubSeq(lib_call.args[1].balance, 13, 16))

\* A run with a plain balance of one ether: 0x0DE0B6B3A7640000 mod 2^32 is
\* 0xA7640000.
C21_Witness ==
    /\ lib_call.fn = "main" /\ lib_result # <<>> /\ lib_result[1].ok
    /\ ~lib_call.args[1].encrypted
    /\ lib_call.args[1].balance = OneEther
    /\ Unpack(PublicValuesOf(lib_result[1]).encrypted_balance) = RawSeq(<<167, 100, 0, 0>>)

(***************************************************************************)
(* C22.  As the specification has it: two accepted calls of the PATH       *)
(* circuit whose lower layers differ in any byte, or whose                 *)
(* num_lower_layer_bytes differ, or whose salts differ, return different   *)
(* commit_lower.                                                           *)
(***************************************************************************)
TwoPathResults ==
    /\ lib_call.fn = "verify_merkle_path"
    /\ Len(lib_result) = 2
    /\ lib_result[1].ok /\ lib_result[2].ok

SameCommitLower == lib_result[1].out[1].commit_lower = lib_result[2].out[1].commit_lower

SameLengthAndSalt ==
    /\ lib_call.args[1].num_lower_layer_bytes = lib_call.args[2].num_lower_layer_bytes
    /\ lib_call.args[1].salt = lib_call.args[2].salt

First32Padded(l) == [i \in 1..32 |-> IF i <= Len(l) THEN l[i] ELSE Raw(0)]

HopCallPending ==
    /\ pc = "loop" /\ index < Len(rev_proof) - 1
    /\ verify_intermediate_layer(rev_proof[index + 1], rev_proof[index + 2])

\* The orchestrator is about to invoke PATH for the root closure.
RootCallPending ==
    /\ pc = "loop" /\ index = Len(rev_proof) - 1
    /\ verify_state_root(rev_proof[index + 1], inputs.state_root)

PendingHopInputs == path_proof_inputs(rev_proof[index + 1], rev_proof[index + 2], salt_fr(inputs))

PendingRootInputs == root_proof_inputs(rev_proof[index + 1], salt_fr(inputs))

LengthsDeclared(call) ==
    /\ call.num_upper_layer_bytes = Len(call.upper_layer_bytes)
    /\ call.num_lower_layer_bytes = Len(call.lower_layer_bytes)

log_input_parameters(in, preimage_fr) ==
    <<[label |-> "burn_preimage", value |-> <<preimage_fr>>],
      [label |-> "lower_layer_prefix_len", value |-> <<in.lower_layer_prefix_len>>],
      [label |-> "lower_layer_prefix", value |-> <<Pack(in.lower_layer_prefix)>>],
      [label |-> "nonce", value |-> <<in.nonce>>],
      [label |-> "balance", value |-> <<in.balance>>],
      [label |-> "storage_hash", value |-> <<Pack(in.storage_hash)>>],
      [label |-> "code_hash", value |-> <<Pack(in.code_hash)>>]>>

\* What the guest has printed: step 3 of main precedes the account-leaf circuit.
Printed == IF pc = "main" THEN <<>> ELSE log_input_parameters(inputs, burn_preimage_fr(inputs))

\* The committed public values of the run, if any.
CommittedPublicValues ==
    {committed[i].data[1] : i \in {j \in 1..Len(committed) : committed[j].what = "public_values"}}

\* C24: no committed public value and no printed line holds the preimage,
\* neither as the bytes read nor as the field element made of them.
C24_PreimageNeverLeaves ==
    /\ \A pv \in CommittedPublicValues : pv.burn_preimage # inputs.burn_preimage
    /\ \A i \in 1..Len(Printed) : Printed[i].value # <<burn_preimage_fr(inputs)>>

\* An accepted run of the honest witness has committed its public values.
C24_Leak ==
    /\ pc = "done" /\ gen.tamper = NoTamper /\ gen.leaf_shape = "honest"
    /\ \E pv \in CommittedPublicValues : pv.burn_preimage = inputs.burn_preimage
    /\ Printed[1].value = <<burn_preimage_fr(inputs)>>

(***************************************************************************)
(* C25.  contains_substring, in its three copies, is the occurrence of the *)
(* substring at some offset.                                               *)
(***************************************************************************)
SubstringResults == lib_call.fn = "contains_substring" /\ Len(lib_result) = 3

\* C25: each copy returns whether the substring occurs at some offset: true
\* for the empty substring, false for a substring longer than the string, true
\* for the string itself; the three copies agree.
C25_ContainsSubstring ==
    /\ lib_call.fn = "contains_substring"
        => \A k \in 1..Len(lib_result) :
                /\ lib_result[k] = Occurs(lib_call.args[k].substring, lib_call.args[k].main_string)
                /\ lib_call.args[k].substring = <<>> => lib_result[k]
                /\ Len(lib_call.args[k].substring) > Len(lib_call.args[k].main_string)
                        => ~lib_result[k]
                /\ lib_call.args[k].substring = lib_call.args[k].main_string => lib_result[k]
    /\ SubstringResults
        => /\ lib_result[1] = lib_result[2]
           /\ lib_result[2] = lib_result[3]

\* The three copies found a substring whose only occurrence is the last offset.
C25_Witness ==
    /\ SubstringResults
    /\ lib_call.args[1].substring = <<Raw(2), Raw(1)>>
    /\ lib_call.args[1].main_string = <<Raw(1), Raw(2), Raw(1)>>
    /\ lib_result = <<TRUE, TRUE, TRUE>>

(***************************************************************************)
(* C26.  The length of the account RLP fits the one length byte of the     *)
(* expected prefix.                                                        *)
(***************************************************************************)
AccountRlpEncoded == lib_call.fn = "encode_account_rlp" /\ lib_result # <<>>

\* The two framing bytes generate_expected_prefix ends with, for the encoded account.
FramingOf(account_rlp) ==
    Slice(generate_expected_prefix(derive_burn_address(FrFromNat(123)), Len(account_rlp)),
          SECURITY_PARAMETER, SECURITY_PARAMETER + 2)

\* The length of the RLP item of an integer of these digits, none leading zero.
StringItemLen(digits) == IF Len(digits) = 1 /\ digits[1] < 128 THEN 1 ELSE 1 + Len(digits)

\* C26: the account RLP has 70 to 94 bytes, so within 56..=255; the length
\* byte of the expected prefix is the length itself, and 0xb8 with that byte is
\* the RLP header of a string of that length.
C26_AccountRlpLength ==
    AccountRlpEncoded
        => /\ Len(lib_result[1]) \in 70..94
           /\ Len(lib_result[1]) \in 56..255
           /\ FramingOf(lib_result[1]) = <<Raw(184), Raw(Len(lib_result[1]))>>
           /\ FramingOf(lib_result[1]) \o lib_result[1] = RlpString(lib_result[1])
           /\ Len(lib_result[1]) = 68 + StringItemLen(SkipLeadingZeros(lib_call.args[1].nonce))
                                      + StringItemLen(SkipLeadingZeros(lib_call.args[1].balance))

\* The longest encoding: the largest nonce and the largest balance.
C26_Witness ==
    /\ AccountRlpEncoded
    /\ lib_call.args[1].nonce = [i \in 1..8 |-> 255]
    /\ lib_call.args[1].balance = [i \in 1..16 |-> 255]
    /\ Len(lib_result[1]) = 94

(***************************************************************************)
(* C27.  The leaf commitment of LAST is the lower commitment of the first  *)
(* hop.                                                                    *)
(***************************************************************************)
\* The witness's prefix, cut to its declared length, followed by the account
\* RLP, is the leaf node.
PrefixAndRlpIsLeaf(w) ==
    /\ w.account_proof # <<>>
    /\ w.lower_layer_prefix_len <= Len(w.lower_layer_prefix)
    /\ Leaf(w) = Slice(w.lower_layer_prefix, 0, w.lower_layer_prefix_len) \o AccountRlp(w)

\* The first hop was taken: lc_1 is known.
FirstHopTaken == LastAccepted /\ Len(layers) >= 1

\* C27: when the leaf is lower_layer_prefix[..lower_layer_prefix_len] ||
\* account_rlp, the commit_upper of LAST is the commit_lower of the first hop,
\* and the public commit_upper is the first layer commitment.
C27_LeafCommitmentIsFirstLayer ==
    /\ (FirstHopTaken /\ PrefixAndRlpIsLeaf(inputs))
        => /\ circuit_outputs[1].commit_upper
                = verify_merkle_path(HopCall(0)).out[1].commit_lower
           /\ field_element_to_u32(circuit_outputs[1].commit_upper) = layers[1]
    /\ (pc = "done" /\ Len(layers) >= 1 /\ PrefixAndRlpIsLeaf(inputs))
        => committed[1].data[1].commit_upper = layers[1]

\* An accepted run of three layers on the honest witness.
C27_Witness ==
    /\ pc = "done" /\ Len(layers) = 2
    /\ PrefixAndRlpIsLeaf(inputs)
    /\ committed[1].data[1].commit_upper = layers[1]
    /\ layers[1] # layers[2]

(***************************************************************************)
(* C28.  Commitment chaining: the path proof of a hop is the layer         *)
(* commitment of the next hop.                                             *)
(***************************************************************************)
\* The committed blob of an ended accepted run, as bytes.
ProofBlob == Unpack(committed[2].data)

\* C28: for 1 <= i < N, pp_i = lc_(i+1), in the lists the orchestrator
\* builds and in the words of the emitted blob; the two are the commitments of
\* the same layer with the same length and salt.
C28_CommitmentChaining ==
    /\ \A i \in 1..(Len(layers) - 1) :
            /\ i <= Len(path_proofs)
            /\ path_proofs[i] = layers[i + 1]
            /\ verify_merkle_path(HopCall(i - 1)).out[1].commit_upper
                    = verify_merkle_path(HopCall(i)).out[1].commit_lower
            /\ HopCall(i - 1).upper_layer_bytes = HopCall(i).lower_layer_bytes
            /\ HopCall(i - 1).num_upper_layer_bytes = HopCall(i).num_lower_layer_bytes
            /\ HopCall(i - 1).salt = HopCall(i).salt
    /\ pc = "done"
            => \A i \in 1..(Hops(inputs) - 1) :
                    Word(ProofBlob, i) = Word(ProofBlob, Hops(inputs) + 2 + i)

\* An emitted blob of three hops: two links.
C28_Witness ==
    /\ pc = "done" /\ Hops(inputs) = 3
    /\ Word(ProofBlob, 1) = Word(ProofBlob, 6)
    /\ Word(ProofBlob, 2) = Word(ProofBlob, 7)
    /\ Word(ProofBlob, 1) # Word(ProofBlob, 2)
    /\ path_proofs[2] = layers[3]

(***************************************************************************)
(* C29.  In an accepted run the account RLP ends the leaf, so LAST and the *)
(* first hop link the leaf to its parent by the same hash.                 *)
(***************************************************************************)
\* The hash LAST looks for in the leaf's parent.
LastLinkHash(w) == keccak256(LeafPrefix(w) \o AccountRlp(w))

\* The hash the first hop of the orchestrator looks for in the leaf's parent.
FirstHopHash(w) == compute_keccak256(Leaf(w))

\* C29: in every accepted run the leaf is prefix || account_rlp, and the
\* hash LAST found in the parent is the hash the first hop found there.
C29_OneLeafHash ==
    (pc = "done" /\ inputs.account_proof # <<>>)
        => /\ Leaf(inputs) = LeafPrefix(inputs) \o AccountRlp(inputs)
           /\ LastLinkHash(inputs) = FirstHopHash(inputs)

\* An accepted run whose leaf goes on after the account RLP: the parent holds
\* the two hashes.
C29_TwoHashesAccepted ==
    /\ pc = "done" /\ gen.tamper = NoTamper
    /\ Len(Leaf(inputs)) > Len(LeafPrefix(inputs) \o AccountRlp(inputs))
    /\ LastLinkHash(inputs) # FirstHopHash(inputs)
    /\ Occurs(LastLinkHash(inputs), LeafParent(inputs))
    /\ Occurs(FirstHopHash(inputs), LeafParent(inputs))

(***************************************************************************)
(* script/src/lib.rs, script/src/mint.rs: the wallet file of the host and  *)
(* mint_cmd.  The provider, the file system and the random generator are   *)
(* the environment: env names the step at which the environment fails, if  *)
(* any, and the values it returns.                                         *)
(***************************************************************************)
ResultOk(v) == [ok |-> TRUE, err |-> "", value |-> <<v>>]

ResultErr(e) == [ok |-> FALSE, err |-> e, value |-> <<>>]

\* A wallet file File::create emptied and write_all did not fill.
TruncatedFile == [state |-> "truncated", entropy |-> 0, coins |-> <<>>]

\* Wallet::save_to_file: File::create, to_string_pretty, write_all.
save_to_file(wallet, outcome, file) ==
    IF outcome = "create_failed" THEN [result |-> ResultErr("io"), file |-> file]
    ELSE IF outcome = "write_failed" THEN [result |-> ResultErr("io"), file |-> TruncatedFile]
    ELSE [result |-> ResultOk(wallet),
          file |-> [state |-> "wallet", entropy |-> wallet.entropy, coins |-> wallet.coins]]

\* The outcome of the save made at the step named create / write.
SaveOutcome(env, create, write) ==
    IF env.fail_at = create THEN "create_failed"
    ELSE IF env.fail_at = write THEN "write_failed"
    ELSE "ok"

\* Wallet::create_new_wallet: random entropy, no coin, saved.
create_new_wallet(env, file) ==
    save_to_file([entropy |-> env.entropy, coins |-> <<>>],
                 SaveOutcome(env, "new_wallet_create", "new_wallet_write"), file)

\* Wallet::load_existing_wallet: read_to_string, serde_json::from_str.
load_existing_wallet(env, file) ==
    IF env.fail_at = "load" \/ file.state # "wallet"
    THEN [result |-> ResultErr("load"), file |-> file]
    ELSE [result |-> ResultOk([entropy |-> file.entropy, coins |-> file.coins]), file |-> file]

\* Wallet::open_or_create
open_or_create(env, file) ==
    IF file.state = "absent" THEN create_new_wallet(env, file)
    ELSE load_existing_wallet(env, file)

\* Wallet::compute_address_preimage: the field element of the first 31 bytes of
\* SHA-256(entropy || index), an ideal hash.
compute_address_preimage(entropy, idx) == [tag |-> "sha", x |-> <<entropy>>, y |-> <<idx>>]

\* Wallet::derive_burn_address (the entropy of a wallet the program wrote is hex).
wallet_derive_burn_address(wallet, idx) ==
    [preimage |-> compute_address_preimage(wallet.entropy, idx),
     address |-> derive_ethereum_address_from_preimage(
                    compute_address_preimage(wallet.entropy, idx))]

\* Wallet::create_coin: the amount as the 32 big-endian bytes of the field
\* element; salt is the random draw.
create_coin(amount, encrypted, salt) ==
    [amount |-> Pack(ToBytesBe(amount)), salt |-> salt, encrypted |-> encrypted]

\* Wallet::add_coin: push, then save_to_file.
add_coin(wallet, coin, outcome, file) ==
    save_to_file([wallet EXCEPT !.coins = Append(@, coin)], outcome, file)

\* An integer field of the header: big-endian bytes without leading zeros,
\* none for zero.
HeaderInt(digits) == RlpString(RawSeq(SkipLeadingZeros(digits)))

\* An optional field: nothing when None.
HeaderOpt(opt, item) == IF opt = <<>> THEN <<>> ELSE item

\* get_block_splited_information: the RLP of the header.
header_rlp(header) ==
    RlpList(RlpString(header.parent_hash)
            \o RlpString(header.ommers_hash)
            \o RlpString(header.beneficiary)
            \o RlpString(header.state_root)
            \o RlpString(header.transactions_root)
            \o RlpString(header.receipts_root)
            \o RlpString(header.logs_bloom)
            \o HeaderInt(header.difficulty)
            \o HeaderInt(header.number)
            \o HeaderInt(header.gas_limit)
            \o HeaderInt(header.gas_used)
            \o HeaderInt(header.timestamp)
            \o RlpString(header.extra_data)
            \o RlpString(header.mix_hash)
            \o RlpString(header.nonce)
            \o HeaderOpt(header.base_fee_per_gas, HeaderInt(header.base_fee_per_gas[1]))
            \o HeaderOpt(header.withdrawals_root, RlpString(header.withdrawals_root[1]))
            \o HeaderOpt(header.blob_gas_used, HeaderInt(header.blob_gas_used[1]))
            \o HeaderOpt(header.excess_blob_gas, HeaderInt(header.excess_blob_gas[1]))
            \o HeaderOpt(header.parent_beacon_block_root,
                         RlpString(header.parent_beacon_block_root[1]))
            \o HeaderOpt(header.requests_hash, RlpString(header.requests_hash[1])))

\* The header split at start, the offset of the first window equal to the
\* state root.
split_at(rlp, state_root, start) ==
    ResultOk([prefix |-> Pack(Slice(rlp, 0, start)),
              commit_top |-> Pack(state_root),
              postfix |-> Pack(Slice(rlp, start + Len(state_root), Len(rlp)))])

\* .windows(len).position(..).ok_or("State root not found in header")?
split_header(rlp, state_root) ==
    IF ~Occurs(state_root, rlp) THEN ResultErr("State root not found in header")
    ELSE split_at(rlp, state_root, FirstOffset(state_root, rlp))

\* The hash comparison and the split, rlp being the RLP of the header.
check_and_split(rlp, header) ==
    IF keccak256(rlp) # header.hash
    THEN ResultErr("Block header hash verification failed")
    ELSE split_header(rlp, header.state_root)

get_block_splited_information(block) == check_and_split(header_rlp(block.header), block.header)

\* A header of a block after the Cancun fork, without its hash.
MintHeaderFields ==
    [parent_hash |-> Fill(1, 32), ommers_hash |-> Fill(2, 32), beneficiary |-> Fill(3, 20),
     state_root |-> Fill(4, 32), transactions_root |-> Fill(5, 32),
     receipts_root |-> Fill(6, 32), logs_bloom |-> Zeros(256),
     difficulty |-> <<0>>, number |-> <<1, 0, 0>>, gas_limit |-> <<1, 201, 195, 128>>,
     gas_used |-> <<0>>, timestamp |-> <<101, 0, 0, 0>>, extra_data |-> <<>>,
     mix_hash |-> Fill(7, 32), nonce |-> Zeros(8),
     base_fee_per_gas |-> <<<<7>>>>, withdrawals_root |-> <<Fill(8, 32)>>,
     blob_gas_used |-> <<<<0>>>>, excess_blob_gas |-> <<<<0>>>>,
     parent_beacon_block_root |-> <<Fill(9, 32)>>, requests_hash |-> <<>>]

\* The header with a hash.
WithHash(fields, hash) ==
    [name \in DOMAIN fields \cup {"hash"} |-> IF name = "hash" THEN hash ELSE fields[name]]

\* The block the provider returns: its hash is the hash of its header.
GoodBlock == [header |-> WithHash(MintHeaderFields, keccak256(header_rlp(MintHeaderFields)))]

\* A block whose hash is not the hash of its header.
BadHashBlock == [header |-> WithHash(MintHeaderFields, keccak256(<<>>))]

\* The value mint_cmd returns, split being what get_block_splited_information
\* returned.
mint_return(burn_addr, coin, split, file) ==
    IF ~split.ok THEN [result |-> split, file |-> file]
    ELSE [result |-> ResultOk([burn_addr |-> burn_addr, coin |-> coin, split |-> split.value[1]]),
          file |-> file]

\* The rest of mint_cmd once the coin is in the wallet: the block, the proof,
\* the split of the header.
mint_after_add_coin(env, burn_addr, coin, file) ==
    IF env.fail_at = "get_block_by_number" THEN [result |-> ResultErr("rpc"), file |-> file]
    ELSE IF env.fail_at = "block_not_found"
    THEN [result |-> ResultErr("Block not found"), file |-> file]
    ELSE IF env.fail_at = "get_proof" THEN [result |-> ResultErr("rpc"), file |-> file]
    ELSE mint_return(burn_addr, coin, get_block_splited_information(env.block), file)

\* wallet.add_coin(coin.clone())? and what follows; saved is add_coin's result.
mint_add_coin(env, burn_addr, coin, saved) ==
    IF ~saved.result.ok THEN saved
    ELSE mint_after_add_coin(env, burn_addr, coin, saved.file)

\* let coin = wallet.create_coin(..); wallet.add_coin(coin.clone())?; and the rest.
mint_with_coin(env, wallet, burn_addr, coin, file) ==
    mint_add_coin(env, burn_addr, coin,
                  add_coin(wallet, coin, SaveOutcome(env, "add_coin_create", "add_coin_write"),
                           file))

\* mint_cmd from the burn address found on: balance, block number, coin.
mint_with_address(context, env, wallet, burn_addr, file) ==
    IF env.fail_at = "get_balance" THEN [result |-> ResultErr("rpc"), file |-> file]
    ELSE IF env.fail_at = "get_block_number" THEN [result |-> ResultErr("rpc"), file |-> file]
    ELSE mint_with_coin(env, wallet, burn_addr,
                        create_coin(FrFromLeBytes(env.balance), context.encrypted, env.salt),
                        file)

\* The indices of the loop, 0 to 9, whose burn address is the source.
MatchingIndices(context, wallet) ==
    {i \in 0..(BURN_ADDRESS_INDICES - 1) :
        wallet_derive_burn_address(wallet, i).address = context.src_burn_addr}

\* The loop stops at the first of the matching indices; none is the error.
mint_with_indices(context, env, wallet, matching, file) ==
    IF matching = {}
    THEN [result |-> ResultErr("Burn address not found!"), file |-> file]
    ELSE mint_with_address(context, env, wallet,
                           wallet_derive_burn_address(wallet, Min(matching)), file)

\* mint_cmd with the wallet opened.
mint_with_wallet(context, env, wallet, file) ==
    mint_with_indices(context, env, wallet, MatchingIndices(context, wallet), file)

\* mint_cmd, given what open_or_create returned.
mint_opened(context, env, opened) ==
    IF ~opened.result.ok THEN opened
    ELSE mint_with_wallet(context, env, opened.result.value[1], opened.file)

\* mint_cmd: the result and the wallet file it leaves.
mint_cmd(context, env, file) ==
    IF env.fail_at = "connect" THEN [result |-> ResultErr("connect"), file |-> file]
    ELSE mint_opened(context, env, open_or_create(env, file))

\* OsRng entropies and random salts, as small numbers.
Entropies == {1, 2}

CoinSalts == {1, 2, 3}

\* Balances the provider returns, as the 32 big-endian bytes of a U256: one
\* wei and one ether.
MintBalances == {Zeros(31) \o <<Raw(1)>>, Zeros(16) \o RawSeq(OneEther)}

\* The steps at which the environment can fail.
FailPoints ==
    {"none", "connect", "new_wallet_create", "new_wallet_write", "load", "get_balance",
     "get_block_number", "add_coin_create", "add_coin_write", "get_block_by_number",
     "block_not_found", "get_proof"}

\* The failures that can happen with this wallet file.
FailPointsOf(file) ==
    IF file.state = "absent" THEN FailPoints \ {"load"}
    ELSE FailPoints \ {"new_wallet_create", "new_wallet_write"}

\* The block is fetched when nothing failed before.
MintEnvs(file) ==
    {env \in [fail_at : FailPointsOf(file),
              entropy : IF file.state = "absent" THEN Entropies ELSE {file.entropy},
              balance : MintBalances,
              salt : CoinSalts,
              block : {GoodBlock, BadHashBlock}] :
        env.fail_at # "none" => env.block = GoodBlock}

\* The burn addresses a caller may name: of the indices 0 and 9, of the index
\* 10 that the loop does not reach, and of a wallet of another entropy.
MintContexts ==
    [src_burn_addr : {wallet_derive_burn_address([entropy |-> 1, coins |-> <<>>], i).address :
                        i \in {0, BURN_ADDRESS_INDICES - 1, BURN_ADDRESS_INDICES}}
                     \cup {wallet_derive_burn_address([entropy |-> 2, coins |-> <<>>], 0).address},
     encrypted : BOOLEAN]

InitMint ==
    /\ wallet_file = NoWalletFile
    /\ mint_result = <<>>
    /\ lib_call = NoCall
    /\ lib_result = <<>>
    /\ path_call = <<>>
    /\ path_result = <<>>
    /\ gen = IdleGen
    /\ inputs = <<>>
    /\ pc = "idle"
    /\ fail = NoFail
    /\ circuit_outputs = <<>>
    /\ index = 0
    /\ path_proofs = <<>>
    /\ layers = <<>>
    /\ root_proof = <<>>
    /\ committed = <<>>

\* One call of mint_cmd, the wallet holding fewer than MaxCoins coins.
MintCmd ==
    /\ Len(wallet_file.coins) < MaxCoins
    /\ \E context \in MintContexts, env \in MintEnvs(wallet_file) :
           \E r \in {mint_cmd(context, env, wallet_file)} :
               /\ mint_result' = <<r.result>>
               /\ wallet_file' = r.file
    /\ UNCHANGED <<gen, inputs, pc, fail, circuit_outputs, index, path_proofs, layers,
                   root_proof, committed, path_call, path_result, lib_call, lib_result>>

NextMint == MintCmd

SpecMint == InitMint /\ [][NextMint]_vars

(***************************************************************************)
(* C30.  mint_cmd leaves the wallet unchanged when it returns an error.    *)
(***************************************************************************)
\* The coins of the persisted wallet.
PersistedCoins(file) == file.coins

\* The last call of mint_cmd returned Err.
MintFailed == mint_result # <<>> /\ ~mint_result[1].ok

\* C30: a call of mint_cmd that returns Err leaves the coin list of the
\* persisted wallet as it was; a coin is added only by a call that returns Ok.
C30_WalletUnchangedOnError ==
    [][MintFailed' => PersistedCoins(wallet_file') = PersistedCoins(wallet_file)]_vars

\* A call that failed after the coin was saved: the block was not found.
C30_CoinSavedByFailedCall ==
    /\ MintFailed
    /\ mint_result[1].err = "Block not found"
    /\ Len(wallet_file.coins) = 1

====
